---- MODULE Spec2Model ----
(***************************************************************************)
(* Model of the routing-table actor of chain/network                      *)
(* (src/chain/network/src/routing/routing_table_actor.rs).                 *)
(*                                                                         *)
(* The actor is single threaded: every message is handled to completion,  *)
(* so each handler is one action.  The handlers are translated as pure    *)
(* operators on a record `s` that holds the actor's fields and the three   *)
(* store columns; an action installs the record the handler returns.      *)
(*                                                                         *)
(* Time.  peer_last_time_reachable maps a peer to an Instant.  The code    *)
(* only ever looks at now.duration_since(t), so an Instant t is           *)
(* represented by its age now - t, saturated at MaxAge; Tick lets one     *)
(* unit of time pass.  All Instant::now() calls of one handler read the   *)
(* same instant.                                                           *)
(*                                                                         *)
(* routing.rs (Edge, EdgeType, Graph, SAVE_PEERS_MAX_TIME) is not part of  *)
(* the sources at hand; those definitions follow the specification        *)
(* (sections 3 and 4.2).                                                   *)
(*                                                                         *)
(* The last part models the timers and the state-part bookkeeping of the  *)
(* ClientActor of tools/chainsync-loadtest                                 *)
(* (src/tools/chainsync-loadtest/src/near_client/client_actor.rs).         *)
(***************************************************************************)
EXTENDS Integers, Sequences, FiniteSets, TLC

VARIABLES
    edges_info,                        \* HashMap<(PeerId, PeerId), Edge>
    raw_graph,                         \* Graph: the set of active edge keys
    peer_forwarding,                   \* Arc<HashMap<PeerId, Vec<PeerId>>>
    peer_last_time_reachable,          \* HashMap<PeerId, Instant> (as ages)
    next_available_component_nonce,    \* u64
    needs_routing_table_recalculation, \* bool
    ColLastComponentNonce,             \* store column: None or u64
    ColComponentEdges,                 \* store column: component nonce -> edges
    ColPeerComponent,                  \* store column: peer -> component nonce
    response,                          \* the response to the last message
    max_submitted,                     \* history: key -> highest nonce submitted
    allocated,                         \* history: component nonces, in allocation order
    spill_failed,                      \* history: the commit of a prune pass has failed
    ever_reachable,                    \* history: the peers a forwarding table has listed
    mailbox,                           \* the messages that wait for the actor, oldest first
    in_flight,                         \* the batch the actor is working on
    pending,                           \* history: the edges accepted since the last RoutingTableUpdate
    handled,                           \* history: the number of messages counted as handled
    utc_now,                           \* ClientActor: the reading of Utc::now()
    is_started,                        \* ClientActor: Actor::started has run
    block_production_next_attempt,     \* ClientActor: DateTime<Utc>
    block_production_started,          \* ClientActor: bool
    doomslug_timer_next_attempt,       \* ClientActor: DateTime<Utc>
    chunk_request_retry_next_attempt,  \* ClientActor: DateTime<Utc>
    sync_started,                      \* ClientActor: bool
    shard_sync_download,               \* ClientActor: the ShardSyncDownload of the shard being synced
    firings                            \* history: timer -> the readings of its last two firings

vars == <<edges_info, raw_graph, peer_forwarding, peer_last_time_reachable,
          next_available_component_nonce, needs_routing_table_recalculation,
          ColLastComponentNonce, ColComponentEdges, ColPeerComponent,
          response, max_submitted, allocated, spill_failed, ever_reachable,
          mailbox, in_flight, pending, handled,
          utc_now, is_started, block_production_next_attempt,
          block_production_started, doomslug_timer_next_attempt,
          chunk_request_retry_next_attempt, sync_started,
          shard_sync_download, firings>>

(***************************************************************************)
(* Bounds                                                                  *)
(***************************************************************************)
NumPeers == 3
MaxNonce == 2
MaxAge == 1
MaxBatch == 1
MaxAllocations == 2
MaxMessages == 4
MaxArrivals == 2

MaxTime == 5

MaxParts == 2

(***************************************************************************)
(* Data                                                                    *)
(***************************************************************************)
SAVE_PEERS_MAX_TIME == 1

\* The announcements of the exhaustive specifications mention the peers
\* 1..NumPeers; one more peer exists, which only SpecWide announces.
Peers == 1..(NumPeers + 1)

my_peer_id == 1

None == "None"

EdgeType == {"Added", "Removed"}

\* Edge keys are canonical: peer0 < peer1.
Keys == {k \in Peers \X Peers : k[1] < k[2]}

Edge == [peer0 : Peers, peer1 : Peers, nonce : 0..MaxNonce, kind : EdgeType]

Edges == {e \in Edge : e.peer0 < e.peer1 /\ e.peer1 <= NumPeers}

Durations == 0..MaxAge

Prune == {"PruneOncePerHour", "PruneNow", "Disable"}

get_pair(edge) == <<edge.peer0, edge.peer1>>

edge_type(edge) == edge.kind

contains_peer(edge, peer) == edge.peer0 = peer \/ edge.peer1 = peer

\* HashMap::insert and HashMap::remove on functions with a finite domain.
MapInsert(m, k, v) == [x \in DOMAIN m \cup {k} |-> IF x = k THEN v ELSE m[x]]

MapRemove(m, ks) == [x \in DOMAIN m \ ks |-> m[x]]

EmptyMap == [x \in {} |-> None]


(***************************************************************************)
(* Graph (routing.rs, after section 4.2 of the specification)              *)
(***************************************************************************)
Graph_add_edge(g, key) == g \cup {key}

Graph_remove_edge(g, key) == g \ {key}

Adjacent(g, p) == {q \in Peers : <<p, q>> \in g \/ <<q, p>> \in g}

\* One BFS layer: `seen` are the peers at distance < d, `layer` maps each peer
\* at distance d to its first hops, `acc` collects the finished layers.
RECURSIVE BfsLayers(_, _, _, _)
BfsLayers(g, seen, layer, acc) ==
    IF DOMAIN layer = {} THEN acc
    ELSE LET seen2 == seen \cup DOMAIN layer
             nextPeers == {v \in Peers \ seen2 :
                              \E u \in DOMAIN layer : v \in Adjacent(g, u)}
             nextLayer == [v \in nextPeers |->
                              UNION {layer[u] : u \in DOMAIN layer \cap Adjacent(g, v)}]
             acc2 == [p \in DOMAIN acc \cup DOMAIN layer |->
                         IF p \in DOMAIN layer THEN layer[p] ELSE acc[p]]
         IN  BfsLayers(g, seen2, nextLayer, acc2)

\* Faulty variant of calculate_distance, stopping at the neighbours of the
\* local peer; NextHopExactness tells it from the algorithm.
calculate_distance_of_neighbours(g) ==
    [n \in Adjacent(g, my_peer_id) |-> {n}]

calculate_distance(g) ==
    BfsLayers(g, {my_peer_id},
              [n \in Adjacent(g, my_peer_id) |-> {n}], EmptyMap)

(***************************************************************************)
(* RoutingTableActor                                                       *)
(***************************************************************************)
\* The actor's fields and the store, as the record the handlers work on.
\* `update` is the StoreUpdate a handler is building (the ColPeerComponent
\* keys it deletes), `ret` the value the last call returned; `reads_fail`
\* tells that store.get_ser returns Err while the request is handled,
\* `warned` that a restore has logged one of its two warnings.
Self ==
    [edges_info                        |-> edges_info,
     raw_graph                         |-> raw_graph,
     peer_forwarding                   |-> peer_forwarding,
     peer_last_time_reachable          |-> peer_last_time_reachable,
     next_available_component_nonce    |-> next_available_component_nonce,
     needs_routing_table_recalculation |-> needs_routing_table_recalculation,
     ColLastComponentNonce             |-> ColLastComponentNonce,
     ColComponentEdges                 |-> ColComponentEdges,
     ColPeerComponent                  |-> ColPeerComponent,
     allocated                         |-> allocated,
     spill_failed                      |-> spill_failed,
     reads_fail                        |-> FALSE,
     warned                            |-> FALSE,
     update                            |-> {},
     ret                               |-> <<>>]

Install(s) ==
    /\ edges_info' = s.edges_info
    /\ raw_graph' = s.raw_graph
    /\ peer_forwarding' = s.peer_forwarding
    /\ peer_last_time_reachable' = s.peer_last_time_reachable
    /\ next_available_component_nonce' = s.next_available_component_nonce
    /\ needs_routing_table_recalculation' = s.needs_routing_table_recalculation
    /\ ColLastComponentNonce' = s.ColLastComponentNonce
    /\ ColComponentEdges' = s.ColComponentEdges
    /\ ColPeerComponent' = s.ColPeerComponent
    /\ allocated' = s.allocated
    /\ spill_failed' = s.spill_failed

\* The only key of ColLastComponentNonce is the empty byte string.
EmptyKey == <<>>

Saturate(age) == IF age > MaxAge THEN MaxAge ELSE age

\* Faulty variant of is_edge_newer, accepting an equal nonce; EdgeAcceptance
\* tells it from the code.
is_edge_newer_or_equal(s, key, nonce) ==
    (IF key \in DOMAIN s.edges_info THEN s.edges_info[key].nonce ELSE 0) <= nonce

\* Faulty variant of is_edge_newer, accepting every nonce but the stored
\* one; BatchOrderIrrelevanceOfDistinct tells it from the code.
is_edge_different(s, key, nonce) ==
    (IF key \in DOMAIN s.edges_info THEN s.edges_info[key].nonce ELSE 0) # nonce

is_edge_newer(s, key, nonce) ==
    (IF key \in DOMAIN s.edges_info THEN s.edges_info[key].nonce ELSE 0) < nonce

\* Faulty variant of remove_edge, leaving the key in the graph;
\* GraphConsistency tells it from the code.
remove_edge_keeping_graph(s, edge) ==
    LET key == <<edge.peer0, edge.peer1>>
    IN  IF key \in DOMAIN s.edges_info
        THEN [s EXCEPT !.edges_info = MapRemove(@, {key}),
                       !.needs_routing_table_recalculation = TRUE]
        ELSE s

\* Faulty variant of remove_edge, removing the stored edge only when the
\* given one is not older; UnconditionalRemoval tells it from the code.
remove_edge_unless_older(s, edge) ==
    LET key == <<edge.peer0, edge.peer1>>
    IN  IF key \in DOMAIN s.edges_info
           /\ edge.nonce >= s.edges_info[key].nonce
        THEN [s EXCEPT !.edges_info = MapRemove(@, {key}),
                       !.raw_graph = Graph_remove_edge(@, key),
                       !.needs_routing_table_recalculation = TRUE]
        ELSE s

remove_edge(s, edge) ==
    LET key == <<edge.peer0, edge.peer1>>
    IN  IF key \in DOMAIN s.edges_info
        THEN [s EXCEPT !.edges_info = MapRemove(@, {key}),
                       !.raw_graph = Graph_remove_edge(@, key),
                       !.needs_routing_table_recalculation = TRUE]
        ELSE s

\* remove_edges over the Vec prune returns; its edges have distinct keys, so
\* the order of the Vec does not matter.
RECURSIVE remove_edges(_, _)
remove_edges(s, edges) ==
    IF edges = {} THEN s
    ELSE LET edge == CHOOSE e \in edges : TRUE
         IN  remove_edges(remove_edge(s, edge), edges \ {edge})

\* Faulty variant of add_verified_edge, leaving the dirty flag alone;
\* DirtyFlagAfterAdd tells it from the code.
add_verified_edge_keeping_flag(s, edge) ==
    LET key == get_pair(edge)
    IN  IF ~is_edge_newer(s, key, edge.nonce)
        THEN [s EXCEPT !.ret = FALSE]
        ELSE [s EXCEPT !.raw_graph = IF edge_type(edge) = "Added"
                                     THEN Graph_add_edge(@, key)
                                     ELSE Graph_remove_edge(@, key),
                       !.edges_info = MapInsert(@, key, edge),
                       !.ret = TRUE]

\* Faulty variant of add_verified_edge, forgetting the stored edge when it
\* refuses one; Idempotence tells it from the code.
add_verified_edge_forgetting(s, edge) ==
    LET key == get_pair(edge)
    IN  IF ~is_edge_newer(s, key, edge.nonce)
        THEN [remove_edge(s, edge) EXCEPT !.ret = FALSE]
        ELSE [s EXCEPT !.needs_routing_table_recalculation = TRUE,
                       !.raw_graph = IF edge_type(edge) = "Added"
                                     THEN Graph_add_edge(@, key)
                                     ELSE Graph_remove_edge(@, key),
                       !.edges_info = MapInsert(@, key, edge),
                       !.ret = TRUE]

add_verified_edge(s, edge) ==
    LET key == get_pair(edge)
    IN  IF ~is_edge_newer(s, key, edge.nonce)
        THEN [s EXCEPT !.ret = FALSE]
        ELSE [s EXCEPT !.needs_routing_table_recalculation = TRUE,
                       !.raw_graph = IF edge_type(edge) = "Added"
                                     THEN Graph_add_edge(@, key)
                                     ELSE Graph_remove_edge(@, key),
                       !.edges_info = MapInsert(@, key, edge),
                       !.ret = TRUE]

\* component_nonce_from_peer is Ok exactly when the store can be read and
\* the peer has a row.
component_nonce_from_peer_ok(s, peer_id) ==
    ~s.reads_fail /\ peer_id \in DOMAIN s.ColPeerComponent

\* get_and_remove_component_edges is Ok exactly when the store can be read
\* and the component has a row;
\* the delete it queues is applied by commit_restore.
get_and_remove_component_edges_ok(s, component_nonce) ==
    ~s.reads_fail /\ component_nonce \in DOMAIN s.ColComponentEdges

\* Faulty variant of restore_peer, stamping the peer with the current time;
\* BackdatedRestoreOfPositiveWindow tells it from the code.
restore_peer_at_now(s, component_nonce, peer_id) ==
    IF peer_id = my_peer_id \/ peer_id \in DOMAIN s.peer_last_time_reachable
    THEN s
    ELSE IF component_nonce_from_peer_ok(s, peer_id)
         THEN IF s.ColPeerComponent[peer_id] = component_nonce
              THEN [s EXCEPT !.peer_last_time_reachable =
                                 MapInsert(@, peer_id, 0),
                             !.update = @ \cup {peer_id}]
              ELSE [s EXCEPT !.warned = TRUE]
         ELSE [s EXCEPT !.warned = TRUE]

\* Faulty variant of restore_peer, taking back an endpoint whatever its row
\* says; RestoreSkipsInconsistentPeer tells it from the code.
restore_peer_whatever_row(s, component_nonce, peer_id) ==
    IF peer_id = my_peer_id \/ peer_id \in DOMAIN s.peer_last_time_reachable
    THEN s
    ELSE [s EXCEPT !.peer_last_time_reachable =
                       MapInsert(@, peer_id, Saturate(SAVE_PEERS_MAX_TIME)),
                   !.update = @ \cup {peer_id}]

\* Lines 188-211: one endpoint of an edge read back from the store.
restore_peer(s, component_nonce, peer_id) ==
    IF peer_id = my_peer_id \/ peer_id \in DOMAIN s.peer_last_time_reachable
    THEN s
    ELSE IF component_nonce_from_peer_ok(s, peer_id)
         THEN IF s.ColPeerComponent[peer_id] = component_nonce
              THEN [s EXCEPT !.peer_last_time_reachable =
                                 MapInsert(@, peer_id, Saturate(SAVE_PEERS_MAX_TIME)),
                             !.update = @ \cup {peer_id}]
              ELSE [s EXCEPT !.warned = TRUE]   \* belongs to another component
         ELSE [s EXCEPT !.warned = TRUE]        \* belongs to no component

\* Lines 187-214: the loop over the edges of the component.  The edges of a
\* component have distinct keys and the store is read uncommitted, so the
\* order of the Vec does not matter.
RECURSIVE restore_edges(_, _, _)
restore_edges(s, component_nonce, edges) ==
    IF edges = {} THEN s
    ELSE LET edge == CHOOSE e \in edges : TRUE
             s1 == restore_peer(s, component_nonce, edge.peer0)
             s2 == restore_peer(s1, component_nonce, edge.peer1)
         IN  restore_edges(add_verified_edge(s2, edge), component_nonce,
                           edges \ {edge})

\* update.commit() of fetch_edges_for_peer_from_disk.
commit_restore(s, component_nonce, ok) ==
    IF ok
    THEN [s EXCEPT !.ColComponentEdges = MapRemove(@, {component_nonce}),
                   !.ColPeerComponent = MapRemove(@, s.update),
                   !.update = {}]
    ELSE [s EXCEPT !.update = {}]

\* Faulty variant of fetch_edges_for_peer_from_disk, refreshing the
\* timestamp of a peer that is tracked; TouchingUnknownPeer tells it from
\* the code.
fetch_edges_for_peer_refreshing(s, other_peer_id, ok) ==
    IF other_peer_id = my_peer_id
    THEN s
    ELSE IF other_peer_id \in DOMAIN s.peer_last_time_reachable
              \/ ~component_nonce_from_peer_ok(s, other_peer_id)
         THEN [s EXCEPT !.peer_last_time_reachable =
                            MapInsert(@, other_peer_id, 0)]
         ELSE LET component_nonce == s.ColPeerComponent[other_peer_id]
                  s1 == IF get_and_remove_component_edges_ok(s, component_nonce)
                        THEN restore_edges(s, component_nonce,
                                           s.ColComponentEdges[component_nonce])
                        ELSE s
              IN  commit_restore(s1, component_nonce, ok)

\* Faulty variant of fetch_edges_for_peer_from_disk, without the test for
\* the local peer; LocalPeerNeverTracked tells it from the code.
fetch_edges_for_any_peer_from_disk(s, other_peer_id, ok) ==
    IF other_peer_id \in DOMAIN s.peer_last_time_reachable
    THEN s
    ELSE IF component_nonce_from_peer_ok(s, other_peer_id)
         THEN LET component_nonce == s.ColPeerComponent[other_peer_id]
                  s1 == IF get_and_remove_component_edges_ok(s, component_nonce)
                        THEN restore_edges(s, component_nonce,
                                           s.ColComponentEdges[component_nonce])
                        ELSE s
              IN  commit_restore(s1, component_nonce, ok)
         ELSE [s EXCEPT !.peer_last_time_reachable =
                            MapInsert(@, other_peer_id, 0)]

fetch_edges_for_peer_from_disk(s, other_peer_id, ok) ==
    IF other_peer_id = my_peer_id
       \/ other_peer_id \in DOMAIN s.peer_last_time_reachable
    THEN s
    ELSE IF component_nonce_from_peer_ok(s, other_peer_id)
         THEN LET component_nonce == s.ColPeerComponent[other_peer_id]
                  s1 == IF get_and_remove_component_edges_ok(s, component_nonce)
                        THEN restore_edges(s, component_nonce,
                                           s.ColComponentEdges[component_nonce])
                        ELSE s
              IN  commit_restore(s1, component_nonce, ok)
         ELSE [s EXCEPT !.peer_last_time_reachable =
                            MapInsert(@, other_peer_id, 0)]

\* The closure of edges.retain (lines 155-162) for the edge at index i on;
\* `ret` collects the edges retained.
RECURSIVE retain_edges(_, _, _, _, _)
retain_edges(s, edges, i, kept, ok) ==
    IF i > Len(edges) THEN [s EXCEPT !.ret = kept]
    ELSE LET edge == edges[i]
             key == get_pair(edge)
             s1 == fetch_edges_for_peer_from_disk(s, key[1], ok)
             s2 == fetch_edges_for_peer_from_disk(s1, key[2], ok)
             s3 == add_verified_edge(s2, edge)
         IN  retain_edges(s3, edges, i + 1,
                          IF s3.ret THEN Append(kept, edge) ELSE kept, ok)

\* Faulty variant of add_verified_edges_to_routing_table, returning its
\* input; AddVerifiedEdgesResponse tells it from the code.
add_verified_edges_returning_input(s, edges, ok) ==
    [retain_edges(s, edges, 1, <<>>, ok) EXCEPT !.ret = edges]

add_verified_edges_to_routing_table(s, edges, ok) ==
    retain_edges(s, edges, 1, <<>>, ok)

\* now.duration_since(oldest_time): oldest_time starts at now (line 274).
oldest_age(s) ==
    LET ages == {s.peer_last_time_reachable[p] : p \in DOMAIN s.peer_last_time_reachable}
    IN  IF ages = {} THEN 0 ELSE CHOOSE a \in ages : \A b \in ages : b <= a

\* Faulty variant of the victim filter, sparing a peer whose age equals
\* the limit; VictimSelection tells it from the code.
peers_to_remove_strictly_older(s, prune_edges_not_reachable_for) ==
    {p \in DOMAIN s.peer_last_time_reachable :
        s.peer_last_time_reachable[p] > prune_edges_not_reachable_for}

\* Faulty variant of the victim filter, taking every tracked peer whatever
\* the window; PositiveWindowKeepsSnapshot tells it from the code.
peers_to_remove_all(s, prune_edges_not_reachable_for) ==
    DOMAIN s.peer_last_time_reachable

peers_to_remove(s, prune_edges_not_reachable_for) ==
    {p \in DOMAIN s.peer_last_time_reachable :
        s.peer_last_time_reachable[p] >= prune_edges_not_reachable_for}

\* Faulty variant of the early return, never taken; SpillHysteresis tells
\* it from the code.
hysteresis_never_skips(s, force_pruning) == FALSE

hysteresis_skips(s, force_pruning) ==
    ~force_pruning /\ oldest_age(s) < SAVE_PEERS_MAX_TIME

edges_touching(s, peers) ==
    {s.edges_info[key] : key \in {k \in DOMAIN s.edges_info :
                                     k[1] \in peers \/ k[2] \in peers}}

\* update.commit() of prune_unreachable_edges_and_save_to_db.
commit_prune(s, current_component_nonce, victims, edges_to_remove, ok) ==
    IF ok
    THEN [s EXCEPT !.ColLastComponentNonce =
                       MapInsert(@, EmptyKey, s.next_available_component_nonce),
                   !.ColPeerComponent =
                       [p \in DOMAIN @ \cup victims |->
                           IF p \in victims THEN current_component_nonce ELSE @[p]],
                   !.ColComponentEdges =
                       MapInsert(@, current_component_nonce, edges_to_remove)]
    ELSE [s EXCEPT !.spill_failed = TRUE]

prune_unreachable_edges_and_save_to_db(s, force_pruning, prune_edges_not_reachable_for, ok) ==
    LET victims == peers_to_remove(s, prune_edges_not_reachable_for)
    IN  IF hysteresis_skips(s, force_pruning)
        THEN [s EXCEPT !.ret = {}]
        ELSE LET current_component_nonce == s.next_available_component_nonce
                 s1 == [s EXCEPT !.next_available_component_nonce = @ + 1,
                                 !.allocated = Append(@, current_component_nonce),
                                 !.peer_last_time_reachable = MapRemove(@, victims)]
                 edges_to_remove == edges_touching(s, victims)
                 s2 == commit_prune(s1, current_component_nonce, victims,
                                    edges_to_remove, ok)
             IN  [s2 EXCEPT !.ret = edges_to_remove]

\* Faulty variant of the recalculation, keeping the old forwarding table;
\* ForwardingCompleteness tells it from the code.
recalculate_keeping_forwarding(s, prune, prune_edges_not_reachable_for, ok) ==
    LET forwarding == calculate_distance(s.raw_graph)
        s1 == [s EXCEPT !.peer_last_time_reachable =
                            [p \in DOMAIN @ \cup DOMAIN forwarding |->
                                IF p \in DOMAIN forwarding THEN 0 ELSE @[p]]]
        s2 == IF prune # "Disable"
              THEN prune_unreachable_edges_and_save_to_db(
                       s1, prune = "PruneNow", prune_edges_not_reachable_for, ok)
              ELSE [s1 EXCEPT !.ret = {}]
        edges_to_remove == s2.ret
    IN  [remove_edges(s2, edges_to_remove) EXCEPT !.ret = edges_to_remove]

\* Faulty variant of the recalculation, pruning under Disable as under
\* PruneOncePerHour; DisableNeverSpills tells it from the code.
recalculate_pruning_always(s, prune, prune_edges_not_reachable_for, ok) ==
    LET forwarding == calculate_distance(s.raw_graph)
        s1 == [s EXCEPT !.peer_forwarding = forwarding,
                        !.peer_last_time_reachable =
                            [p \in DOMAIN @ \cup DOMAIN forwarding |->
                                IF p \in DOMAIN forwarding THEN 0 ELSE @[p]]]
        s2 == prune_unreachable_edges_and_save_to_db(
                  s1, prune = "PruneNow", prune_edges_not_reachable_for, ok)
        edges_to_remove == s2.ret
    IN  [remove_edges(s2, edges_to_remove) EXCEPT !.ret = edges_to_remove]

recalculate_routing_table_and_maybe_prune_edges(s, prune, prune_edges_not_reachable_for, ok) ==
    LET forwarding == calculate_distance(s.raw_graph)
        s1 == [s EXCEPT !.peer_forwarding = forwarding,
                        !.peer_last_time_reachable =
                            [p \in DOMAIN @ \cup DOMAIN forwarding |->
                                IF p \in DOMAIN forwarding THEN 0 ELSE @[p]]]
        s2 == IF prune # "Disable"
              THEN prune_unreachable_edges_and_save_to_db(
                       s1, prune = "PruneNow", prune_edges_not_reachable_for, ok)
              ELSE [s1 EXCEPT !.ret = {}]
        edges_to_remove == s2.ret
    IN  [remove_edges(s2, edges_to_remove) EXCEPT !.ret = edges_to_remove]

\* Faulty variant of the RoutingTableUpdate arm, recalculating whatever the
\* dirty flag says; CleanUpdateIsNoOp tells it from the code.
handle_RoutingTableUpdate_always(s, prune, prune_edges_not_reachable_for, ok) ==
    LET s1 == recalculate_routing_table_and_maybe_prune_edges(
                  s, prune, prune_edges_not_reachable_for, ok)
    IN  [s1 EXCEPT !.needs_routing_table_recalculation = FALSE,
                   !.ret = [edges_to_remove |->
                                {e \in s1.ret : contains_peer(e, my_peer_id)},
                            peer_forwarding |-> s1.peer_forwarding]]

\* Faulty variant of the RoutingTableUpdate arm, reporting every evicted
\* edge; UpdateResponse tells it from the code.
handle_RoutingTableUpdate_reporting_all(s, prune, prune_edges_not_reachable_for, ok) ==
    LET s1 == IF s.needs_routing_table_recalculation
              THEN recalculate_routing_table_and_maybe_prune_edges(
                       s, prune, prune_edges_not_reachable_for, ok)
              ELSE [s EXCEPT !.ret = {}]
    IN  [s1 EXCEPT !.needs_routing_table_recalculation = FALSE,
                   !.ret = [edges_to_remove |-> s1.ret,
                            peer_forwarding |-> s1.peer_forwarding]]

\* Handler<RoutingTableMessages>::handle, RoutingTableUpdate arm.
\* Faulty variant of the RoutingTableUpdate arm, answering with the error
\* of a commit that failed; NoErrorReachesCaller tells it from the code.
handle_RoutingTableUpdate_or_fail(s, prune, prune_edges_not_reachable_for, ok) ==
    LET s1 == IF s.needs_routing_table_recalculation
              THEN recalculate_routing_table_and_maybe_prune_edges(
                       s, prune, prune_edges_not_reachable_for, ok)
              ELSE [s EXCEPT !.ret = {}]
    IN  IF s1.spill_failed /\ ~s.spill_failed
        THEN [s1 EXCEPT !.ret = [error |-> "Error storing network component to store"]]
        ELSE [s1 EXCEPT !.needs_routing_table_recalculation = FALSE,
                        !.ret = [edges_to_remove |->
                                     {e \in s1.ret : contains_peer(e, my_peer_id)},
                                 peer_forwarding |-> s1.peer_forwarding]]

handle_RoutingTableUpdate(s, prune, prune_edges_not_reachable_for, ok) ==
    LET s1 == IF s.needs_routing_table_recalculation
              THEN recalculate_routing_table_and_maybe_prune_edges(
                       s, prune, prune_edges_not_reachable_for, ok)
              ELSE [s EXCEPT !.ret = {}]
    IN  [s1 EXCEPT !.needs_routing_table_recalculation = FALSE,
                   !.ret = [edges_to_remove |->
                                {e \in s1.ret : contains_peer(e, my_peer_id)},
                            peer_forwarding |-> s1.peer_forwarding]]

\* Handler<RoutingTableMessages>::handle, RequestRoutingTable arm.
handle_RequestRoutingTable(s) ==
    [s EXCEPT !.ret = {s.edges_info[key] : key \in DOMAIN s.edges_info}]

\* Handler<RoutingTableMessages>::handle, AdvRemoveEdges arm.
RECURSIVE handle_AdvRemoveEdges(_, _, _)
handle_AdvRemoveEdges(s, edges, i) ==
    IF i > Len(edges) THEN s
    ELSE handle_AdvRemoveEdges(remove_edge(s, edges[i]), edges, i + 1)

\* Faulty variant of new, starting from component nonce 0 whatever the
\* store holds; ComponentNonceMonotonicityNoFailure tells it from the code.
new_ignoring_store(s) ==
    [s EXCEPT !.edges_info = EmptyMap,
              !.raw_graph = {},
              !.peer_forwarding = EmptyMap,
              !.peer_last_time_reachable = EmptyMap,
              !.next_available_component_nonce = 0,
              !.needs_routing_table_recalculation = FALSE]

\* RoutingTableActor::new over the store `s` holds.
new(s) ==
    [s EXCEPT !.edges_info = EmptyMap,
              !.raw_graph = {},
              !.peer_forwarding = EmptyMap,
              !.peer_last_time_reachable = EmptyMap,
              !.next_available_component_nonce =
                  IF ~s.reads_fail /\ EmptyKey \in DOMAIN s.ColLastComponentNonce
                  THEN s.ColLastComponentNonce[EmptyKey] + 1
                  ELSE 0,
              !.needs_routing_table_recalculation = FALSE]

(***************************************************************************)
(* Messages                                                                *)
(***************************************************************************)
Batches == UNION {[1..n -> Edges] : n \in 0..MaxBatch}

\* Batches of first announcements: Added edges with nonce 1.
FirstBatches ==
    {edges \in Batches :
        \A i \in 1..Len(edges) : edges[i].nonce = 1 /\ edges[i].kind = "Added"}

NoResponse == [type |-> "None"]

\* The value of in_flight while no handler runs.
NoBatch == [edges |-> <<>>, i |-> 0, kept |-> <<>>]

\* A record over an empty store; new() fills in the actor's fields.
EmptyStore ==
    [edges_info                        |-> EmptyMap,
     raw_graph                         |-> {},
     peer_forwarding                   |-> EmptyMap,
     peer_last_time_reachable          |-> EmptyMap,
     next_available_component_nonce    |-> 0,
     needs_routing_table_recalculation |-> FALSE,
     ColLastComponentNonce             |-> EmptyMap,
     ColComponentEdges                 |-> EmptyMap,
     ColPeerComponent                  |-> EmptyMap,
     allocated                         |-> <<>>,
     spill_failed                      |-> FALSE,
     reads_fail                        |-> FALSE,
     warned                            |-> FALSE,
     update                            |-> {},
     ret                               |-> <<>>]

\* start_routing_table_actor over an empty store.
\* The timers of check_triggers.
Timers == {"doomslug", "block_production", "chunk_request_retry"}

\* No shard is being synced: the handler of StateResponse finds no download.
NoDownload == [status |-> "None", downloads |-> <<>>]

\* ClientActor::new: the three timers are due at once and nothing is
\* started.  The clock starts at the reading 0.
ClientActor_new ==
    /\ utc_now = 0
    /\ is_started = FALSE
    /\ block_production_next_attempt = utc_now
    /\ block_production_started = FALSE
    /\ doomslug_timer_next_attempt = utc_now
    /\ chunk_request_retry_next_attempt = utc_now
    /\ sync_started = FALSE
    /\ firings = [t \in Timers |-> <<>>]

Init ==
    LET s == new(EmptyStore)
    IN  /\ edges_info = s.edges_info
        /\ raw_graph = s.raw_graph
        /\ peer_forwarding = s.peer_forwarding
        /\ peer_last_time_reachable = s.peer_last_time_reachable
        /\ next_available_component_nonce = s.next_available_component_nonce
        /\ needs_routing_table_recalculation = s.needs_routing_table_recalculation
        /\ ColLastComponentNonce = s.ColLastComponentNonce
        /\ ColComponentEdges = s.ColComponentEdges
        /\ ColPeerComponent = s.ColPeerComponent
        /\ allocated = s.allocated
        /\ spill_failed = s.spill_failed
        /\ response = NoResponse
        /\ max_submitted = [key \in Keys |-> 0]
        /\ ever_reachable = {}
        /\ mailbox = <<>>
        /\ in_flight = NoBatch
        /\ pending = {}
        /\ handled = 0
        /\ ClientActor_new
        /\ shard_sync_download = NoDownload

\* RoutingTableMessages::AddVerifiedEdges { edges }; `ok` tells whether the
\* store commits of this message succeed.
AddVerifiedEdges(edges, ok) ==
    LET s == add_verified_edges_to_routing_table(Self, edges, ok)
    IN  /\ Install(s)
        /\ response' = [type |-> "AddVerifiedEdgesResponse", edges |-> s.ret]

\* History: the highest nonce submitted so far for each key.
Submit(edges) ==
    max_submitted' =
        [key \in Keys |->
            LET nonces == {edges[i].nonce : i \in {j \in 1..Len(edges) :
                                              get_pair(edges[j]) = key}}
            IN  IF \E n \in nonces : n > max_submitted[key]
                THEN CHOOSE n \in nonces : \A m \in nonces : m <= n
                ELSE max_submitted[key]]

history == <<max_submitted, ever_reachable>>

\* History: the peers listed by a forwarding table the actor has computed.
Observe ==
    ever_reachable' = ever_reachable \cup DOMAIN peer_forwarding'

\* RoutingTableMessages::RoutingTableUpdate { prune, prune_edges_not_reachable_for }
RoutingTableUpdate(prune, prune_edges_not_reachable_for, ok) ==
    LET s == handle_RoutingTableUpdate(Self, prune, prune_edges_not_reachable_for, ok)
    IN  /\ Len(s.allocated) <= MaxAllocations
        /\ Install(s)
        /\ response' = [type |-> "RoutingTableUpdateResponse",
                        edges_to_remove |-> s.ret.edges_to_remove,
                        peer_forwarding |-> s.ret.peer_forwarding]

\* RoutingTableMessages::AdvRemoveEdges(edges)
AdvRemoveEdges(edges) ==
    /\ Install(handle_AdvRemoveEdges(Self, edges, 1))
    /\ response' = [type |-> "Empty"]

\* One unit of time passes between two messages.
Tick ==
    /\ peer_last_time_reachable' =
           [p \in DOMAIN peer_last_time_reachable |->
               Saturate(peer_last_time_reachable[p] + 1)]
    /\ response' = NoResponse
    /\ UNCHANGED <<edges_info, raw_graph, peer_forwarding,
                   next_available_component_nonce,
                   needs_routing_table_recalculation, ColLastComponentNonce,
                   ColComponentEdges, ColPeerComponent, allocated,
                   spill_failed>>

\* The node restarts: a new actor is constructed over the same store.
Restart ==
    LET s == new(Self)
    IN  /\ Install(s)
        /\ response' = NoResponse

\* The mailbox of the actor and what it is doing; the specifications that
\* hand each message to the handler at once leave them alone.
context == <<mailbox, in_flight, pending, handled>>

\* The fields of the ClientActor.
client == <<utc_now, is_started, block_production_next_attempt,
            block_production_started, doomslug_timer_next_attempt,
            chunk_request_retry_next_attempt, sync_started,
            shard_sync_download, firings>>

\* The actor with a store that never fails, without the test-only message;
\* the nonces submitted are recorded.
Next ==
    \/ \E edges \in Batches :
           AddVerifiedEdges(edges, TRUE) /\ Submit(edges)
               /\ UNCHANGED <<ever_reachable, context, client>>
    \/ \E prune \in Prune, d \in Durations :
           RoutingTableUpdate(prune, d, TRUE) /\ UNCHANGED <<history, context, client>>
    \/ Tick /\ UNCHANGED <<history, context, client>>

Spec == Init /\ [][Next]_vars

\* The same actor, with the test-only AdvRemoveEdges message.
NextAdv ==
    \/ \E edges \in Batches :
           AddVerifiedEdges(edges, TRUE) /\ UNCHANGED <<history, context, client>>
    \/ \E prune \in Prune, d \in Durations :
           RoutingTableUpdate(prune, d, TRUE) /\ UNCHANGED <<history, context, client>>
    \/ \E edges \in Batches :
           AdvRemoveEdges(edges) /\ UNCHANGED <<history, context, client>>
    \/ Tick /\ UNCHANGED <<history, context, client>>

SpecAdv == Init /\ [][NextAdv]_vars

\* The actor with restarts of the node.
NextRestart ==
    \/ \E edges \in Batches :
           AddVerifiedEdges(edges, TRUE) /\ UNCHANGED <<history, context, client>>
    \/ \E prune \in Prune, d \in Durations :
           RoutingTableUpdate(prune, d, TRUE) /\ UNCHANGED <<history, context, client>>
    \/ Tick /\ UNCHANGED <<history, context, client>>
    \/ Restart /\ UNCHANGED <<history, context, client>>

SpecRestart == Init /\ [][NextRestart]_vars

\* The actor with restarts and with a store whose commits may fail; the
\* peers announce each connection once.
NextFaulty ==
    \/ \E edges \in FirstBatches, ok \in BOOLEAN :
           AddVerifiedEdges(edges, ok) /\ UNCHANGED <<history, context, client>>
    \/ \E prune \in Prune, d \in Durations, ok \in BOOLEAN :
           RoutingTableUpdate(prune, d, ok) /\ UNCHANGED <<history, context, client>>
    \/ Tick /\ UNCHANGED <<history, context, client>>
    \/ Restart /\ UNCHANGED <<history, context, client>>

SpecFaulty == Init /\ [][NextFaulty]_vars

\* A wider network: a fixed pool of announcements among four peers; the peers
\* the forwarding tables list are recorded.
MkEdge(peer0, peer1, nonce, kind) ==
    [peer0 |-> peer0, peer1 |-> peer1, nonce |-> nonce, kind |-> kind]

WidePool ==
    {MkEdge(1, 3, 1, "Removed"), MkEdge(2, 3, 1, "Added"),
     MkEdge(1, 2, 2, "Removed"), MkEdge(1, 4, 1, "Removed"),
     MkEdge(1, 3, 2, "Added"), MkEdge(1, 2, 2, "Added"),
     MkEdge(1, 4, 2, "Added")}

WideBatches == {<<edge>> : edge \in WidePool}

NextWide ==
    \/ \E edges \in WideBatches :
           AddVerifiedEdges(edges, TRUE) /\ UNCHANGED <<max_submitted, context, client>> /\ Observe
    \/ \E prune \in Prune, d \in Durations :
           RoutingTableUpdate(prune, d, TRUE) /\ UNCHANGED <<max_submitted, context, client>> /\ Observe
    \/ Tick /\ UNCHANGED <<max_submitted, context, client>> /\ Observe

SpecWide == Init /\ [][NextWide]_vars

\* Every graph among four peers: the actor after a first AddVerifiedEdges
\* that announced, as Added with nonce 1, each edge of a graph.
RECURSIVE announce(_, _)
announce(s, keys) ==
    IF keys = {} THEN s
    ELSE LET key == CHOOSE k \in keys : TRUE
         IN  announce(retain_edges(s, <<MkEdge(key[1], key[2], 1, "Added")>>,
                                   1, <<>>, TRUE),
                      keys \ {key})

InitGraph ==
    \E g \in SUBSET Keys :
        LET s == announce(new(EmptyStore), g)
        IN  /\ edges_info = s.edges_info
            /\ raw_graph = s.raw_graph
            /\ peer_forwarding = s.peer_forwarding
            /\ peer_last_time_reachable = s.peer_last_time_reachable
            /\ next_available_component_nonce = s.next_available_component_nonce
            /\ needs_routing_table_recalculation = s.needs_routing_table_recalculation
            /\ ColLastComponentNonce = s.ColLastComponentNonce
            /\ ColComponentEdges = s.ColComponentEdges
            /\ ColPeerComponent = s.ColPeerComponent
            /\ allocated = s.allocated
            /\ spill_failed = s.spill_failed
            /\ response = NoResponse
            /\ max_submitted = [key \in Keys |-> IF key \in g THEN 1 ELSE 0]
            /\ ever_reachable = {}
            /\ mailbox = <<>>
            /\ in_flight = NoBatch
            /\ pending = {}
            /\ handled = 0
            /\ ClientActor_new
            /\ shard_sync_download = NoDownload

NextGraph ==
    \/ \E prune \in Prune, d \in Durations :
           RoutingTableUpdate(prune, d, TRUE) /\ UNCHANGED <<history, context, client>>
    \/ Tick /\ UNCHANGED <<history, context, client>>

SpecGraph == InitGraph /\ [][NextGraph]_vars

\* The periodic pass: the peer manager asks for RoutingTableUpdate(
\* PruneOncePerHour, SAVE_PEERS_MAX_TIME) again and again while time passes;
\* MaxArrivals batches of edges arrive, counted in `handled`, and then no
\* more, so that no prune pass is ever held back by MaxAllocations; the
\* peers announce each connection once.
PeriodicUpdate ==
    /\ RoutingTableUpdate("PruneOncePerHour", SAVE_PEERS_MAX_TIME, TRUE)
    /\ UNCHANGED <<history, context, client>>

Arrival(edges) ==
    /\ handled < MaxArrivals
    /\ AddVerifiedEdges(edges, TRUE)
    /\ handled' = handled + 1
    /\ UNCHANGED <<history, mailbox, in_flight, pending, client>>

Elapse == Tick /\ UNCHANGED <<history, context, client>>

NextLive ==
    \/ \E edges \in FirstBatches : Arrival(edges)
    \/ PeriodicUpdate
    \/ Elapse

\* Time never stops and the periodic request is made forever.
SpecLive ==
    Init /\ [][NextLive]_vars /\ WF_vars(Elapse) /\ WF_vars(PeriodicUpdate)

(***************************************************************************)
(* The mailbox                                                             *)
(***************************************************************************)
\* The actor runs in an actix Context: producers append messages to its
\* mailbox at any time, and handle(&mut self, ..) takes the oldest one when
\* the handler before it has returned.  A batch is applied edge by edge
\* (edges.retain), so that the states in the middle of a batch exist.
MailboxBatches ==
    {<<MkEdge(1, 2, 1, "Added"), MkEdge(2, 3, 1, "Added")>>,
     <<MkEdge(1, 2, 2, "Removed"), MkEdge(1, 3, 1, "Added")>>}

RoutingTableMessages ==
    [type : {"AddVerifiedEdges"}, edges : MailboxBatches]
        \cup [type : {"RoutingTableUpdate"}, prune : {"PruneNow", "Disable"},
              prune_edges_not_reachable_for : {0}]
        \cup [type : {"RequestRoutingTable"}]

\* Faulty variant of Idle, letting a message in while a batch is half
\* applied; SerialOrdering tells it from the code.
Idle_or_busy == TRUE

\* No handler is running.
Idle == in_flight = NoBatch

\* A producer sends a message: it arrives at the end of the mailbox.
Send(msg) ==
    /\ handled + Len(mailbox) < MaxMessages
    /\ mailbox' = Append(mailbox, [arrival |-> handled + Len(mailbox) + 1,
                                   msg |-> msg])
    /\ UNCHANGED <<edges_info, raw_graph, peer_forwarding,
                   peer_last_time_reachable, next_available_component_nonce,
                   needs_routing_table_recalculation, ColLastComponentNonce,
                   ColComponentEdges, ColPeerComponent, allocated,
                   spill_failed, response, history, in_flight, pending,
                   handled, client>>

\* The actor takes the oldest message.
Take(type) ==
    /\ Idle
    /\ mailbox # <<>>
    /\ Head(mailbox).msg.type = type
    /\ mailbox' = Tail(mailbox)
    /\ handled' = handled + 1

\* handle of AddVerifiedEdges is entered: the batch is in flight.
BeginAddVerifiedEdges ==
    /\ Take("AddVerifiedEdges")
    /\ in_flight' = [edges |-> Head(mailbox).msg.edges, i |-> 1, kept |-> <<>>]
    /\ UNCHANGED <<edges_info, raw_graph, peer_forwarding,
                   peer_last_time_reachable, next_available_component_nonce,
                   needs_routing_table_recalculation, ColLastComponentNonce,
                   ColComponentEdges, ColPeerComponent, allocated,
                   spill_failed, response, history, pending, client>>

\* One turn of the closure of edges.retain; after the last edge the handler
\* returns the edges kept.
StepAddVerifiedEdges ==
    /\ in_flight # NoBatch
    /\ LET edge == in_flight.edges[in_flight.i]
           s == retain_edges(Self, <<edge>>, 1, <<>>, TRUE)
           kept == in_flight.kept \o s.ret
       IN  /\ Install(s)
           /\ IF in_flight.i = Len(in_flight.edges)
              THEN /\ in_flight' = NoBatch
                   /\ response' = [type |-> "AddVerifiedEdgesResponse",
                                   edges |-> kept]
                   /\ pending' = pending \cup {kept[j] : j \in 1..Len(kept)}
              ELSE /\ in_flight' = [in_flight EXCEPT !.i = @ + 1,
                                                     !.kept = kept]
                   /\ UNCHANGED <<response, pending>>
    /\ UNCHANGED <<history, mailbox, handled, client>>

\* handle of RoutingTableUpdate, from the mailbox.
TakeRoutingTableUpdate ==
    /\ Take("RoutingTableUpdate")
    /\ RoutingTableUpdate(Head(mailbox).msg.prune,
                          Head(mailbox).msg.prune_edges_not_reachable_for, TRUE)
    /\ pending' = {}
    /\ UNCHANGED <<history, in_flight, client>>

\* RoutingTableMessages::RequestRoutingTable
RequestRoutingTable ==
    /\ response' = [type |-> "RequestRoutingTableResponse",
                    edges_info |-> handle_RequestRoutingTable(Self).ret]
    /\ UNCHANGED <<edges_info, raw_graph, peer_forwarding,
                   peer_last_time_reachable, next_available_component_nonce,
                   needs_routing_table_recalculation, ColLastComponentNonce,
                   ColComponentEdges, ColPeerComponent, allocated,
                   spill_failed>>

TakeRequestRoutingTable ==
    /\ Take("RequestRoutingTable")
    /\ RequestRoutingTable
    /\ UNCHANGED <<history, in_flight, pending, client>>

NextMailbox ==
    \/ \E msg \in RoutingTableMessages : Send(msg)
    \/ BeginAddVerifiedEdges
    \/ StepAddVerifiedEdges
    \/ TakeRoutingTableUpdate
    \/ TakeRequestRoutingTable

SpecMailbox == Init /\ [][NextMailbox]_vars

(***************************************************************************)
(* The ClientActor of chainsync-loadtest                                   *)
(***************************************************************************)
\* Utc::now() is the wall clock: a reading is a number of time units, and
\* between two handlers the clock may be set to any reading, back as well as
\* forth.  All the Utc::now() calls of one handler read the same instant.
Times == 0..MaxTime

\* config.doosmslug_step_period
doosmslug_step_period == 2

\* config.block_production_tracking_delay
block_production_tracking_delay == 1

\* config.chunk_request_retry_period
chunk_request_retry_period == 3

period(timer) ==
    CASE timer = "doomslug" -> doosmslug_step_period
      [] timer = "block_production" -> block_production_tracking_delay
      [] timer = "chunk_request_retry" -> chunk_request_retry_period

\* Faulty variant of run_timer, counting the next period from the attempt
\* that was due and not from now; TimerFiresOncePerPeriod tells it from the
\* code.
run_timer_from_next_attempt(duration, next_attempt, now) ==
    IF now < next_attempt
    THEN [called |-> 0, ret |-> next_attempt]
    ELSE [called |-> 1, ret |-> next_attempt + duration]

\* ClientActor::run_timer: `called` counts the invocations of the callback,
\* `ret` is the DateTime returned.
run_timer(duration, next_attempt, now) ==
    IF now < next_attempt
    THEN [called |-> 0, ret |-> next_attempt]
    ELSE [called |-> 1, ret |-> now + duration]

\* History: the readings of the last two firings of a timer.
record_firing(f, r, now) ==
    IF r.called = 0 THEN f
    ELSE IF Len(f) < 2 THEN Append(f, now) ELSE <<f[2], now>>

\* ClientActor::check_triggers.  The callbacks (try_doomslug_timer,
\* try_handle_block_production, resend_chunk_requests) act on the client
\* and change none of the timers; the Duration returned is dropped by every
\* caller.
check_triggers ==
    LET now == utc_now
        d == IF sync_started
             THEN run_timer(doosmslug_step_period,
                            doomslug_timer_next_attempt, now)
             ELSE [called |-> 0, ret |-> doomslug_timer_next_attempt]
        b == IF block_production_started
             THEN run_timer(block_production_tracking_delay,
                            block_production_next_attempt, now)
             ELSE [called |-> 0, ret |-> block_production_next_attempt]
        c == run_timer(chunk_request_retry_period,
                       chunk_request_retry_next_attempt, now)
    IN  /\ doomslug_timer_next_attempt' = d.ret
        /\ block_production_next_attempt' = b.ret
        /\ chunk_request_retry_next_attempt' = c.ret
        /\ firings' =
               [firings EXCEPT
                   !["doomslug"] = record_firing(@, d, now),
                   !["block_production"] = record_firing(@, b, now),
                   !["chunk_request_retry"] = record_firing(@, c, now)]

routing == <<edges_info, raw_graph, peer_forwarding, peer_last_time_reachable,
             next_available_component_nonce,
             needs_routing_table_recalculation, ColLastComponentNonce,
             ColComponentEdges, ColPeerComponent, response, allocated,
             spill_failed>>

\* Actor::started: start_sync, which starts syncing when enough peers are
\* connected (or the wait is skipped) and otherwise asks to be run later,
\* and block production tracking when there is a validator signer.
started(enough_peers, validator_signer) ==
    /\ ~is_started
    /\ is_started' = TRUE
    /\ sync_started' = enough_peers
    /\ block_production_started' = validator_signer
    /\ UNCHANGED <<utc_now, block_production_next_attempt,
                   doomslug_timer_next_attempt,
                   chunk_request_retry_next_attempt, shard_sync_download,
                   firings>>

\* start_sync, run later because too few peers were connected.
start_sync(enough_peers) ==
    /\ is_started
    /\ ~sync_started
    /\ sync_started' = enough_peers
    /\ UNCHANGED <<utc_now, is_started, block_production_next_attempt,
                   block_production_started, doomslug_timer_next_attempt,
                   chunk_request_retry_next_attempt, shard_sync_download,
                   firings>>

\* The wall clock moves.
SetClock(t) ==
    /\ t # utc_now
    /\ utc_now' = t
    /\ UNCHANGED <<is_started, block_production_next_attempt,
                   block_production_started, doomslug_timer_next_attempt,
                   chunk_request_retry_next_attempt, sync_started,
                   shard_sync_download, firings>>

\* Handler<GetNetworkInfo>::handle: check_triggers, and a read.
GetNetworkInfo ==
    /\ is_started
    /\ check_triggers
    /\ UNCHANGED <<utc_now, is_started, block_production_started,
                   sync_started, shard_sync_download>>

\* A ShardSyncDownload: its status and one DownloadStatus per part (one for
\* the header), of which the handler uses the flags done and error.
DownloadStatus == [done : BOOLEAN, error : BOOLEAN]

NewDownload(status, n) ==
    [status |-> status,
     downloads |-> [i \in 1..n |-> [done |-> FALSE, error |-> FALSE]]]

\* The downloads the sync job sets up: the header of a shard, or its parts.
NewDownloads ==
    {NoDownload, NewDownload("StateDownloadHeader", 1),
     NewDownload("StateDownloadComplete", 0)}
        \cup {NewDownload("StateDownloadParts", n) : n \in 1..MaxParts}

\* The ShardStateSyncResponse of a StateResponse: `expected` tells whether
\* its hash and shard are those of the download, `header` whether it carries
\* a header, `part` whether it carries a part, whose part_id is `part_id`.
StateResponses ==
    [expected : BOOLEAN, header : BOOLEAN, part : BOOLEAN,
     part_id : 0..MaxParts]

\* Faulty variant of the StateResponse arm, storing a part whatever its done
\* flag says; StatePartBookkeeping tells it from the code.
handle_StateResponse_storing_again(download, state_response, ok) ==
    LET same == [download |-> download, set_state_part |-> <<>>]
    IN  IF ~state_response.expected \/ download = NoDownload
           \/ download.status # "StateDownloadParts"
           \/ ~state_response.part
        THEN same
        ELSE LET part_id == state_response.part_id
                 num_parts == Len(download.downloads)
             IN  IF part_id >= num_parts THEN same
                 ELSE [download |->
                           IF ok
                           THEN [download EXCEPT
                                    !.downloads[part_id + 1].done = TRUE]
                           ELSE [download EXCEPT
                                    !.downloads[part_id + 1].error = TRUE],
                       set_state_part |-> <<part_id>>]

\* Handler<NetworkClientMessages>::handle, StateResponse arm, after
\* check_triggers: the download it leaves and the parts it has handed to
\* set_state_part; `ok` tells whether the chain accepts the header or part.
\* downloads[k] of the code is downloads[k + 1] here.
handle_StateResponse(download, state_response, ok) ==
    LET same == [download |-> download, set_state_part |-> <<>>]
    IN  IF ~state_response.expected \/ download = NoDownload
        THEN same
        ELSE CASE download.status = "StateDownloadHeader" ->
                      IF state_response.header
                      THEN IF ~download.downloads[1].done
                           THEN [same EXCEPT !.download =
                                    IF ok
                                    THEN [download EXCEPT
                                             !.downloads[1].done = TRUE]
                                    ELSE [download EXCEPT
                                             !.downloads[1].error = TRUE]]
                           ELSE same
                      ELSE IF ~download.downloads[1].done
                           THEN [same EXCEPT
                                    !.download.downloads[1].error = TRUE]
                           ELSE same
               [] download.status = "StateDownloadParts" ->
                      IF state_response.part
                      THEN LET part_id == state_response.part_id
                               num_parts == Len(download.downloads)
                           IN  IF part_id >= num_parts THEN same
                               ELSE IF ~download.downloads[part_id + 1].done
                               THEN [download |->
                                         IF ok
                                         THEN [download EXCEPT
                                                  !.downloads[part_id + 1].done = TRUE]
                                         ELSE [download EXCEPT
                                                  !.downloads[part_id + 1].error = TRUE],
                                     set_state_part |-> <<part_id>>]
                               ELSE same
                      ELSE same
               [] OTHER -> same

\* NetworkClientMessages::StateResponse
StateResponse(state_response, ok) ==
    /\ is_started
    /\ check_triggers
    /\ shard_sync_download' =
           handle_StateResponse(shard_sync_download, state_response, ok).download
    /\ UNCHANGED <<utc_now, is_started, block_production_started,
                   sync_started>>

\* The client after construction, with the download the sync job has set up.
InitClient ==
    \E download \in NewDownloads :
        LET s == new(EmptyStore)
        IN  /\ edges_info = s.edges_info
            /\ raw_graph = s.raw_graph
            /\ peer_forwarding = s.peer_forwarding
            /\ peer_last_time_reachable = s.peer_last_time_reachable
            /\ next_available_component_nonce = s.next_available_component_nonce
            /\ needs_routing_table_recalculation = s.needs_routing_table_recalculation
            /\ ColLastComponentNonce = s.ColLastComponentNonce
            /\ ColComponentEdges = s.ColComponentEdges
            /\ ColPeerComponent = s.ColPeerComponent
            /\ allocated = s.allocated
            /\ spill_failed = s.spill_failed
            /\ response = NoResponse
            /\ max_submitted = [key \in Keys |-> 0]
            /\ ever_reachable = {}
            /\ mailbox = <<>>
            /\ in_flight = NoBatch
            /\ pending = {}
            /\ handled = 0
            /\ ClientActor_new
            /\ shard_sync_download = download

NextClient ==
    \/ \E enough_peers, validator_signer \in BOOLEAN :
           started(enough_peers, validator_signer)
               /\ UNCHANGED <<routing, history, context>>
    \/ \E enough_peers \in BOOLEAN :
           start_sync(enough_peers) /\ UNCHANGED <<routing, history, context>>
    \/ \E t \in Times : SetClock(t) /\ UNCHANGED <<routing, history, context>>
    \/ GetNetworkInfo /\ UNCHANGED <<routing, history, context>>
    \/ \E state_response \in StateResponses, ok \in BOOLEAN :
           StateResponse(state_response, ok)
               /\ UNCHANGED <<routing, history, context>>

SpecClient == InitClient /\ [][NextClient]_vars

(***************************************************************************)
(* Properties                                                              *)
(***************************************************************************)
\* C1: nonce monotonicity.  For every key of the Edge Store the stored nonce
\* is the highest nonce ever submitted for that key.
NonceMonotonicity ==
    \A key \in DOMAIN edges_info : edges_info[key].nonce = max_submitted[key]

\* C2: graph consistency.  The Overlay Graph holds exactly the keys of the
\* Edge Store whose stored edge is Added.
GraphConsistency ==
    raw_graph = {key \in DOMAIN edges_info : edges_info[key].kind = "Added"}

\* A Removed edge superseded an older one and stays in the Edge Store, an
\* edge was spilled, and AdvRemoveEdges has just removed an edge.
GraphConsistencyWitness ==
    /\ \E key \in DOMAIN edges_info :
           /\ edges_info[key].kind = "Removed"
           /\ edges_info[key].nonce = 2
           /\ key \notin raw_graph
    /\ \E c \in DOMAIN ColComponentEdges : ColComponentEdges[c] # {}
    /\ raw_graph # {}
    /\ response.type = "Empty"
    /\ needs_routing_table_recalculation

\* C3: spill disjointness.  No peer is both tracked in memory and a key of
\* ColPeerComponent.
SpillDisjointness ==
    DOMAIN peer_last_time_reachable \cap DOMAIN ColPeerComponent = {}

\* Distances in a graph, by paths: Within(g, a, k) are the peers joined to a
\* by a path of at most k edges.
RECURSIVE Within(_, _, _)
Within(g, a, k) ==
    IF k = 0 THEN {a}
    ELSE LET w == Within(g, a, k - 1)
         IN  w \cup UNION {Adjacent(g, p) : p \in w}

Unreachable == Cardinality(Peers)

Dist(g, a, b) ==
    IF b \in Within(g, a, Cardinality(Peers) - 1)
    THEN CHOOSE k \in 0..(Cardinality(Peers) - 1) :
             /\ b \in Within(g, a, k)
             /\ \A j \in 0..(k - 1) : b \notin Within(g, a, j)
    ELSE Unreachable

\* C4: forwarding correctness.  After a RoutingTableUpdate, every next hop N
\* listed for a peer P is a neighbour of the local peer in the Overlay Graph
\* and starts a shortest path from the local peer to P.
ForwardingCorrectness ==
    response.type = "RoutingTableUpdateResponse" =>
        \A P \in DOMAIN response.peer_forwarding :
            \A N \in response.peer_forwarding[P] :
            /\ N \in Adjacent(raw_graph, my_peer_id)
            /\ Dist(raw_graph, my_peer_id, P) # Unreachable
            /\ Dist(raw_graph, my_peer_id, P) = 1 + Dist(raw_graph, N, P)

\* C5: forwarding completeness.  After a RoutingTableUpdate, every peer
\* reachable from the local peer in the Overlay Graph is a key of the
\* forwarding table.
ForwardingCompleteness ==
    response.type = "RoutingTableUpdateResponse" =>
        \A P \in Peers \ {my_peer_id} :
            Dist(raw_graph, my_peer_id, P) # Unreachable =>
                P \in DOMAIN response.peer_forwarding

\* A RoutingTableUpdate has just answered with a peer two hops away.
ForwardingCompletenessWitness ==
    /\ response.type = "RoutingTableUpdateResponse"
    /\ \E P \in Peers : Dist(raw_graph, my_peer_id, P) = 2

\* The actor at the moment the edge at index i of a batch is processed.
Before(edges, i) ==
    add_verified_edges_to_routing_table(Self, SubSeq(edges, 1, i - 1), TRUE)

\* The peers an edge mentions that are spilled when the edge is processed.
SpilledEndpoints(b, edge) ==
    {p \in {edge.peer0, edge.peer1} :
        /\ p # my_peer_id
        /\ p \notin DOMAIN b.peer_last_time_reachable
        /\ p \in DOMAIN b.ColPeerComponent
        /\ b.ColPeerComponent[p] \in DOMAIN b.ColComponentEdges}

\* Every edge of the component of a spilled peer that the edge at index i
\* mentions is, in the actor `s`, in the Edge Store, or its key holds a
\* strictly newer edge.
RestoredBy(edges, i, s) ==
    LET b == Before(edges, i)
    IN  \A p \in SpilledEndpoints(b, edges[i]) :
            \A ce \in b.ColComponentEdges[b.ColPeerComponent[p]] :
                /\ get_pair(ce) \in DOMAIN s.edges_info
                /\ \/ s.edges_info[get_pair(ce)] = ce
                   \/ s.edges_info[get_pair(ce)].nonce > ce.nonce

\* C6: restore completeness.  When AddVerifiedEdges processes an edge that
\* mentions a spilled peer, then after the request every edge of the peer's
\* component is in the Edge Store, or its key holds a strictly newer edge.
\* Stated of the request the actor may handle next, in every state.
RestoreCompleteness ==
    \A edges \in WideBatches :
        LET s == add_verified_edges_to_routing_table(Self, edges, TRUE)
        IN  \A i \in 1..Len(edges) : RestoredBy(edges, i, s)

\* C7: a peer with a ColPeerComponent row has no edge in the Edge Store and
\* its row names a component that ColComponentEdges holds.
PeerComponentConsistency ==
    \A p \in DOMAIN ColPeerComponent :
        /\ ColPeerComponent[p] \in DOMAIN ColComponentEdges
        /\ \A key \in DOMAIN edges_info : key[1] # p /\ key[2] # p

StrictlyIncreasing(seq) ==
    \A i, j \in 1..Len(seq) : i < j => seq[i] < seq[j]

\* A prune pass that allocates a component nonce.
Allocates(prune, d, ok) ==
    /\ RoutingTableUpdate(prune, d, ok)
    /\ Len(allocated') = Len(allocated) + 1

NextNonceIsStored ==
    [][\A prune \in Prune, d \in Durations :
          (Allocates(prune, d, TRUE) /\ EmptyKey \in DOMAIN ColLastComponentNonce) =>
              allocated'[Len(allocated')] = ColLastComponentNonce[EmptyKey]]_vars

\* The nonce stored for the key of an edge once both endpoints were fetched.
NonceWhenProcessed(b, edge) ==
    LET m == fetch_edges_for_peer_from_disk(
                 fetch_edges_for_peer_from_disk(b, edge.peer0, TRUE),
                 edge.peer1, TRUE)
    IN  IF get_pair(edge) \in DOMAIN m.edges_info
        THEN m.edges_info[get_pair(edge)].nonce
        ELSE 0

RECURSIVE AcceptedOf(_, _)
AcceptedOf(edges, i) ==
    IF i > Len(edges) THEN <<>>
    ELSE IF edges[i].nonce > NonceWhenProcessed(Before(edges, i), edges[i])
         THEN <<edges[i]>> \o AcceptedOf(edges, i + 1)
         ELSE AcceptedOf(edges, i + 1)

\* C10: edge acceptance.  AddVerifiedEdges accepts an edge exactly when its
\* nonce is above the nonce stored for its key when the edge is processed;
\* an accepted edge becomes the stored edge, a rejected one leaves the
\* stored edge as it was.  Stated of the request the actor may handle next,
\* in every state.
EdgeAcceptance ==
    \A edges \in Batches :
        LET s == add_verified_edges_to_routing_table(Self, edges, TRUE)
        IN  /\ s.ret = AcceptedOf(edges, 1)
            /\ \A i \in 1..Len(edges) :
                   LET b == Before(edges, i)
                       a == IF i = Len(edges) THEN s ELSE Before(edges, i + 1)
                       key == get_pair(edges[i])
                       cur == NonceWhenProcessed(b, edges[i])
                   IN  IF edges[i].nonce > cur
                       THEN /\ key \in DOMAIN a.edges_info
                            /\ a.edges_info[key] = edges[i]
                       ELSE /\ cur = 0 => key \notin DOMAIN a.edges_info
                            /\ cur > 0 => /\ key \in DOMAIN a.edges_info
                                          /\ a.edges_info[key].nonce = cur

\* A request has just had an edge accepted; a key stores the highest nonce,
\* so the next request can be refused an equal and a lower nonce; and a peer
\* is spilled with its edges, so the next request can restore a component
\* before its edge is compared.
EdgeAcceptanceWitness ==
    /\ response.type = "AddVerifiedEdgesResponse"
    /\ response.edges # <<>>
    /\ \E key \in DOMAIN edges_info : edges_info[key].nonce = MaxNonce
    /\ \E p \in DOMAIN ColPeerComponent :
           /\ p \notin DOMAIN peer_last_time_reachable
           /\ ColPeerComponent[p] \in DOMAIN ColComponentEdges
           /\ ColComponentEdges[ColPeerComponent[p]] # {}

\* The edges that follow the convention for nonces: Added edges have odd
\* nonces, Removed edges even ones.
ConventionEdges ==
    {e \in Edges : e.kind = IF e.nonce % 2 = 1 THEN "Added" ELSE "Removed"}

\* Requests of two such edges.
PairBatches == {<<e1, e2>> : e1, e2 \in ConventionEdges}

\* C11: AddVerifiedEdges response.  The list returned is the sub-sequence of
\* the input edges that were newer than the stored edge of their key at
\* their turn, after the restores they triggered; an edge that only came
\* back from disk is not in it.  Stated of the request of two edges the
\* actor may handle next, in every state.
AddVerifiedEdgesResponse ==
    \A edges \in PairBatches :
        LET s == add_verified_edges_to_routing_table(Self, edges, TRUE)
        IN  s.ret = AcceptedOf(edges, 1)

\* A request was refused its edge, the Edge Store holds an edge and a
\* component with edges lies in the store: of the next two edges one can be
\* accepted, one refused and one can bring edges back from disk.
AddVerifiedEdgesResponseWitness ==
    /\ response.type = "AddVerifiedEdgesResponse"
    /\ response.edges = <<>>
    /\ DOMAIN edges_info # {}
    /\ \E p \in DOMAIN ColPeerComponent :
           /\ p \notin DOMAIN peer_last_time_reachable
           /\ ColPeerComponent[p] \in DOMAIN ColComponentEdges
           /\ \E ce \in ColComponentEdges[ColPeerComponent[p]] :
                  get_pair(ce) \notin DOMAIN edges_info

\* What idempotence compares: the Edge Store, the Overlay Graph, the peers
\* tracked, the dirty flag and the three columns of the store.
Effect(s) ==
    <<s.edges_info, s.raw_graph, DOMAIN s.peer_last_time_reachable,
      s.needs_routing_table_recalculation, s.ColLastComponentNonce,
      s.ColComponentEdges, s.ColPeerComponent>>

\* C12: idempotence.  AddVerifiedEdges(E); AddVerifiedEdges(E) leaves the
\* state AddVerifiedEdges(E) alone leaves.  Stated of the request, of one or
\* two edges, the actor may handle next, in every state.
Idempotence ==
    \A edges \in Batches \cup PairBatches :
        LET once == add_verified_edges_to_routing_table(Self, edges, TRUE)
        IN  Effect(add_verified_edges_to_routing_table(once, edges, TRUE))
                = Effect(once)

\* After a prune pass the Edge Store holds an edge and a component with an
\* edge of another key lies in the store: the next request can have an edge
\* accepted, one refused and a component restored.
IdempotenceWitness ==
    /\ response.type = "RoutingTableUpdateResponse"
    /\ response.edges_to_remove # {}
    /\ DOMAIN edges_info # {}
    /\ \E c \in DOMAIN ColComponentEdges :
           \E ce \in ColComponentEdges[c] : get_pair(ce) \notin DOMAIN edges_info

\* The actor as the recalculation hands it to the prune pass: what a
\* recalculation without pruning leaves.
AtPrune(d, ok) ==
    recalculate_routing_table_and_maybe_prune_edges(Self, "Disable", d, ok)

\* C13: spill hysteresis.  A prune pass without force that finds the oldest
\* timestamp of the Reachability Tracker younger than SAVE_PEERS_MAX_TIME, or
\* the tracker empty, returns no edge, writes nothing to the store, allocates
\* no component nonce and leaves tracker, Edge Store and Overlay Graph as
\* they are, whatever unreachable_for is.  Stated of the RoutingTableUpdate
\* the actor may handle next, in every state.
SpillHysteresis ==
    needs_routing_table_recalculation =>
        \A d \in Durations, ok \in BOOLEAN :
            oldest_age(AtPrune(d, ok)) < SAVE_PEERS_MAX_TIME =>
                LET s == recalculate_routing_table_and_maybe_prune_edges(
                             Self, "PruneOncePerHour", d, ok)
                IN  /\ s.ret = {}
                    /\ s.ColLastComponentNonce = ColLastComponentNonce
                    /\ s.ColComponentEdges = ColComponentEdges
                    /\ s.ColPeerComponent = ColPeerComponent
                    /\ s.spill_failed = spill_failed
                    /\ s.allocated = allocated
                    /\ s.next_available_component_nonce
                           = next_available_component_nonce
                    /\ s.peer_last_time_reachable
                           = AtPrune(d, ok).peer_last_time_reachable
                    /\ s.edges_info = edges_info
                    /\ s.raw_graph = raw_graph

\* The next prune pass finds every tracked peer just seen, one of them with
\* an edge: with unreachable_for 0 all of them would be victims.
SpillHysteresisWitness ==
    /\ needs_routing_table_recalculation
    /\ oldest_age(AtPrune(0, TRUE)) < SAVE_PEERS_MAX_TIME
    /\ peers_to_remove(AtPrune(0, TRUE), 0) # {}
    /\ edges_touching(AtPrune(0, TRUE), peers_to_remove(AtPrune(0, TRUE), 0)) # {}

\* C14: a failed spill keeps its victims in memory.  When the commit of a
\* prune pass fails, the victims of the pass stay in the Reachability
\* Tracker and their edges stay in the Edge Store and the Overlay Graph.
FailedSpillKeepsVictims ==
    [][\A prune \in Prune, d \in Durations :
          (/\ RoutingTableUpdate(prune, d, FALSE)
           /\ Len(allocated') = Len(allocated) + 1) =>
              /\ peers_to_remove(AtPrune(d, FALSE), d)
                     \subseteq DOMAIN peer_last_time_reachable'
              /\ edges_info' = edges_info
              /\ raw_graph' = raw_graph]_vars

\* C15: a restore returns the whole component to memory.  When
\* AddVerifiedEdges processes an edge that mentions a spilled peer of
\* component C, then after the request ColComponentEdges[C] is absent and
\* every peer whose ColPeerComponent row named C is tracked and has no row.
RestoreWholeComponent ==
    [][\A edges \in Batches :
          AddVerifiedEdges(edges, TRUE) =>
              \A i \in 1..Len(edges) :
                  LET b == Before(edges, i)
                  IN  \A p \in SpilledEndpoints(b, edges[i]) :
                          /\ b.ColPeerComponent[p] \notin DOMAIN ColComponentEdges'
                          /\ \A q \in DOMAIN b.ColPeerComponent :
                                 b.ColPeerComponent[q] = b.ColPeerComponent[p] =>
                                     /\ q \in DOMAIN peer_last_time_reachable'
                                     /\ q \notin DOMAIN ColPeerComponent']_vars

\* C16: Reachability Tracker domain.  The peers tracked are the peers that
\* the last forwarding computation reached or that were reachable within
\* SAVE_PEERS_MAX_TIME; a peer that an edge mentioned but that never was
\* reachable is not tracked.  Stated of the states a RoutingTableUpdate
\* leaves, where a forwarding computation has seen every edge submitted.
TrackerDomain ==
    response.type = "RoutingTableUpdateResponse" =>
        DOMAIN peer_last_time_reachable \subseteq ever_reachable

\* C17: dirty flag soundness.  Between requests, when the dirty flag is clear
\* the forwarding table is the result of the breadth-first search on the
\* Overlay Graph as it is.
DirtyFlagSoundness ==
    ~needs_routing_table_recalculation =>
        peer_forwarding = calculate_distance(raw_graph)

\* C18: AddVerifiedEdges sets the dirty flag.  After any AddVerifiedEdges
\* request the dirty flag is set.
AddSetsDirtyFlag ==
    response.type = "AddVerifiedEdgesResponse" =>
        needs_routing_table_recalculation

\* C18 as amended: AddVerifiedEdges sets the dirty flag exactly when it
\* changes the Edge Store, by an edge of its input or by one restored from
\* disk; a request that accepts nothing leaves the flag as it was.  Stated of
\* the request the actor may handle next, in every state.
DirtyFlagAfterAdd ==
    \A edges \in Batches :
        LET s == add_verified_edges_to_routing_table(Self, edges, TRUE)
        IN  /\ s.needs_routing_table_recalculation
                = (needs_routing_table_recalculation
                       \/ s.edges_info # edges_info)
            /\ s.ret # <<>> => s.needs_routing_table_recalculation

\* A request had its edge refused and left the flag clear, while a component
\* with an edge lies in the store for the next request to restore.
DirtyFlagAfterAddWitness ==
    /\ response.type = "AddVerifiedEdgesResponse"
    /\ response.edges = <<>>
    /\ ~needs_routing_table_recalculation
    /\ DOMAIN edges_info # {}
    /\ \E c \in DOMAIN ColComponentEdges : ColComponentEdges[c] # {}

\* C19: a RoutingTableUpdate with the dirty flag clear is a no-op.  It
\* leaves Edge Store, Overlay Graph, Reachability Tracker, forwarding table,
\* component nonce counter and the store as they are, whatever the prune
\* policy, and answers with no evicted edge and the table published before;
\* and every RoutingTableUpdate leaves the dirty flag clear.  Stated of the
\* RoutingTableUpdate the actor may handle next, in every state.
CleanUpdateIsNoOp ==
    /\ response.type = "RoutingTableUpdateResponse" =>
           ~needs_routing_table_recalculation
    /\ \A prune \in Prune, d \in Durations, ok \in BOOLEAN :
           LET s == handle_RoutingTableUpdate(Self, prune, d, ok)
           IN  /\ ~s.needs_routing_table_recalculation
               /\ ~needs_routing_table_recalculation =>
                      /\ s.edges_info = edges_info
                      /\ s.raw_graph = raw_graph
                      /\ s.peer_last_time_reachable = peer_last_time_reachable
                      /\ s.peer_forwarding = peer_forwarding
                      /\ s.next_available_component_nonce
                             = next_available_component_nonce
                      /\ s.allocated = allocated
                      /\ s.ColLastComponentNonce = ColLastComponentNonce
                      /\ s.ColComponentEdges = ColComponentEdges
                      /\ s.ColPeerComponent = ColPeerComponent
                      /\ s.ret = [edges_to_remove |-> {},
                                  peer_forwarding |-> peer_forwarding]

\* A RoutingTableUpdate has just answered and a peer the graph reaches has
\* an old timestamp: the request found the flag clear and did not
\* recalculate, though a prune pass would have had a victim.
CleanUpdateIsNoOpWitness ==
    /\ response.type = "RoutingTableUpdateResponse"
    /\ \E p \in DOMAIN peer_last_time_reachable :
           /\ peer_last_time_reachable[p] >= SAVE_PEERS_MAX_TIME
           /\ p \in DOMAIN calculate_distance(raw_graph)

\* C20: RoutingTableUpdate response.  The evicted list returned holds, of
\* the edges the pass took out of memory, those with the local peer as an
\* endpoint, and the table returned is the one the pass computed.  Stated of
\* the RoutingTableUpdate the actor may handle next, in every state where
\* the dirty flag is set.
UpdateResponse ==
    needs_routing_table_recalculation =>
        \A prune \in Prune, d \in Durations, ok \in BOOLEAN :
            LET s == handle_RoutingTableUpdate(Self, prune, d, ok)
                evicted == {edges_info[key] :
                               key \in DOMAIN edges_info \ DOMAIN s.edges_info}
            IN  /\ s.ret.edges_to_remove
                       = {e \in evicted : my_peer_id \in {e.peer0, e.peer1}}
                /\ s.ret.peer_forwarding = calculate_distance(raw_graph)
                /\ s.ret.peer_forwarding = s.peer_forwarding

\* A RoutingTableUpdate has just spilled an edge of the local peer together
\* with an edge between two other peers, and reported the former only.
UpdateResponseWitness ==
    /\ response.type = "RoutingTableUpdateResponse"
    /\ response.edges_to_remove # {}
    /\ allocated # <<>>
    /\ allocated[Len(allocated)] \in DOMAIN ColComponentEdges
    /\ response.edges_to_remove \subseteq ColComponentEdges[allocated[Len(allocated)]]
    /\ \E e \in ColComponentEdges[allocated[Len(allocated)]] :
           /\ my_peer_id \notin {e.peer0, e.peer1}
           /\ e \notin response.edges_to_remove
           /\ get_pair(e) \notin DOMAIN edges_info

\* The value of ColLastComponentNonce, 0 while the cell is absent.
LastComponentNonce(s) ==
    IF EmptyKey \in DOMAIN s.ColLastComponentNonce
    THEN s.ColLastComponentNonce[EmptyKey]
    ELSE 0

\* C21: one component per prune pass.  A prune pass that gets past the
\* hysteresis check allocates one component nonce C, writes
\* ColPeerComponent[p] = C for its victims and for no other peer, writes
\* ColComponentEdges[C] as the edges of the Edge Store with a victim
\* endpoint, and advances the counter and ColLastComponentNonce by one, also
\* without victims.  Stated of the RoutingTableUpdate the actor may handle
\* next, in every state where the dirty flag is set.
OneComponentPerPass ==
    needs_routing_table_recalculation =>
        \A prune \in Prune \ {"Disable"}, d \in Durations :
            LET at == AtPrune(d, TRUE)
                s == recalculate_routing_table_and_maybe_prune_edges(
                         Self, prune, d, TRUE)
                C == next_available_component_nonce
                victims == DOMAIN at.peer_last_time_reachable
                               \ DOMAIN s.peer_last_time_reachable
            IN  (prune = "PruneNow" \/ oldest_age(at) >= SAVE_PEERS_MAX_TIME) =>
                    /\ s.allocated = Append(allocated, C)
                    /\ s.next_available_component_nonce = C + 1
                    /\ LastComponentNonce(s) = LastComponentNonce(Self) + 1
                    /\ DOMAIN s.ColPeerComponent
                           = DOMAIN ColPeerComponent \cup victims
                    /\ \A p \in DOMAIN s.ColPeerComponent :
                           s.ColPeerComponent[p] =
                               IF p \in victims THEN C ELSE ColPeerComponent[p]
                    /\ DOMAIN s.ColComponentEdges
                           = DOMAIN ColComponentEdges \cup {C}
                    /\ \A c \in DOMAIN ColComponentEdges \ {C} :
                           s.ColComponentEdges[c] = ColComponentEdges[c]
                    /\ s.ColComponentEdges[C] =
                           {edges_info[key] : key \in
                               {k \in DOMAIN edges_info :
                                   k[1] \in victims \/ k[2] \in victims}}

\* C22: victim selection.  The victims of a prune pass that proceeds are the
\* tracked peers last reachable unreachable_for ago or earlier; with
\* RoutingTableUpdate(PruneNow, 0) every tracked peer, the peers the table
\* just computed reaches included, is spilled and no edge touching one of
\* them is left in the Overlay Graph.  Stated of the RoutingTableUpdate the
\* actor may handle next, in every state where the dirty flag is set.
VictimSelection ==
    needs_routing_table_recalculation =>
        \A prune \in Prune \ {"Disable"}, d \in Durations :
            LET at == AtPrune(d, TRUE)
                s == recalculate_routing_table_and_maybe_prune_edges(
                         Self, prune, d, TRUE)
                tracked == DOMAIN at.peer_last_time_reachable
            IN  (prune = "PruneNow" \/ oldest_age(at) >= SAVE_PEERS_MAX_TIME) =>
                    /\ tracked \ DOMAIN s.peer_last_time_reachable
                           = {p \in tracked : at.peer_last_time_reachable[p] >= d}
                    /\ (prune = "PruneNow" /\ d = 0) =>
                           /\ s.peer_last_time_reachable = EmptyMap
                           /\ DOMAIN s.peer_forwarding \subseteq tracked
                           /\ \A p \in tracked :
                                  /\ p \in DOMAIN s.ColPeerComponent
                                  /\ \A key \in s.raw_graph :
                                         key[1] # p /\ key[2] # p

\* RoutingTableUpdate(PruneNow, 0) has just spilled every tracked peer, a
\* peer its table reaches among them.
VictimSelectionWitness ==
    /\ response.type = "RoutingTableUpdateResponse"
    /\ response.peer_forwarding # EmptyMap
    /\ peer_last_time_reachable = EmptyMap
    /\ DOMAIN response.peer_forwarding \subseteq DOMAIN ColPeerComponent
    /\ raw_graph = {}

\* The nonce the Edge Store holds for a key, 0 for an absent key.
current_nonce(key) ==
    IF key \in DOMAIN edges_info THEN edges_info[key].nonce ELSE 0

\* C23: stale input is silently ignored.  An AddVerifiedEdges request all of
\* whose edges have a nonce not above the current nonce of their key (0 for
\* an absent key) leaves the Edge Store, the Overlay Graph, the Reachability
\* Tracker, the dirty flag and the columns of the store as they were and
\* answers with an empty list.
StaleInputIgnored ==
    [][\A edges \in Batches :
          (/\ AddVerifiedEdges(edges, TRUE)
           /\ \A i \in 1..Len(edges) :
                  edges[i].nonce <= current_nonce(get_pair(edges[i]))) =>
              /\ response'.edges = <<>>
              /\ edges_info' = edges_info
              /\ raw_graph' = raw_graph
              /\ peer_last_time_reachable' = peer_last_time_reachable
              /\ needs_routing_table_recalculation'
                     = needs_routing_table_recalculation
              /\ ColLastComponentNonce' = ColLastComponentNonce
              /\ ColComponentEdges' = ColComponentEdges
              /\ ColPeerComponent' = ColPeerComponent]_vars

\* Requests of two edges of any kind.
AnyPairBatches == {<<e1, e2>> : e1, e2 \in Edges}

\* The same request with its two edges exchanged.
Swapped(edges) == <<edges[2], edges[1]>>

\* C24: batch order irrelevance.  AddVerifiedEdges of a batch and of a
\* permutation of it, from the same state, leave the same Edge Store, Overlay
\* Graph, peers tracked, dirty flag and columns of the store, batches with
\* several edges for one key included.  Stated of the request of two edges
\* the actor may handle next, in every state.
BatchOrderIrrelevance ==
    \A edges \in AnyPairBatches :
        Effect(add_verified_edges_to_routing_table(Self, edges, TRUE))
            = Effect(add_verified_edges_to_routing_table(
                         Self, Swapped(edges), TRUE))

\* C24, amended: the order of a batch is irrelevant when the edges of the
\* batch that share a key and a nonce are the same edge.
BatchOrderIrrelevanceOfDistinct ==
    \A edges \in AnyPairBatches :
        (get_pair(edges[1]) = get_pair(edges[2])
            /\ edges[1].nonce = edges[2].nonce => edges[1] = edges[2]) =>
            Effect(add_verified_edges_to_routing_table(Self, edges, TRUE))
                = Effect(add_verified_edges_to_routing_table(
                             Self, Swapped(edges), TRUE))

\* A request of two edges for one key is due whose answer depends on the
\* order of the two, and one of whose edges brings a component back from
\* the store.
BatchOrderIrrelevanceWitness ==
    \E edges \in AnyPairBatches :
        LET s == add_verified_edges_to_routing_table(Self, edges, TRUE)
            r == add_verified_edges_to_routing_table(Self, Swapped(edges), TRUE)
        IN  /\ get_pair(edges[1]) = get_pair(edges[2])
            /\ edges[1].nonce # edges[2].nonce
            /\ s.ret # r.ret
            /\ Len(s.ret) # Len(r.ret)
            /\ DOMAIN s.ColComponentEdges # DOMAIN ColComponentEdges

\* C25: serial ordering of messages.  The actor takes a message only when
\* the handler before it has returned, and takes the messages in the order
\* of their arrival; so when it takes a RoutingTableUpdate no batch is half
\* applied, and if edges were accepted since the last RoutingTableUpdate the
\* dirty flag is set, the table returned is the one of the graph as the
\* batches left it, and that graph reflects every accepted edge: the Edge
\* Store holds for its key an edge at least as new, and while it holds the
\* accepted edge itself the key is in the Overlay Graph exactly if the edge
\* is Added.
SerialOrdering ==
    [][(mailbox # <<>> /\ mailbox' = Tail(mailbox)) =>
          /\ in_flight = NoBatch
          /\ Head(mailbox).arrival = handled + 1
          /\ (Head(mailbox).msg.type = "RoutingTableUpdate" /\ pending # {}) =>
                 /\ needs_routing_table_recalculation
                 /\ response'.peer_forwarding = calculate_distance(raw_graph)
                 /\ \A edge \in pending :
                        LET key == get_pair(edge)
                        IN  /\ key \in DOMAIN edges_info
                            /\ edges_info[key].nonce >= edge.nonce
                            /\ edges_info[key] = edge =>
                                   (key \in raw_graph <=> edge_type(edge) = "Added")
      ]_vars

\* A RoutingTableUpdate that arrived behind a batch of two edges has been
\* handled after it: its table routes to peer 3 over the two edges of the
\* batch, and the next message waits.
SerialOrderingWitness ==
    /\ response.type = "RoutingTableUpdateResponse"
    /\ handled = 2
    /\ pending = {}
    /\ 3 \in DOMAIN response.peer_forwarding
    /\ response.peer_forwarding[3] = {2}
    /\ mailbox # <<>>

\* The first hops of shortest paths: for each peer other than the local one
\* that a path joins to it, the neighbours of the local peer from which the
\* peer is one edge nearer.
FirstHops(g) ==
    [P \in {Q \in Peers \ {my_peer_id} : Dist(g, my_peer_id, Q) # Unreachable} |->
        {N \in Adjacent(g, my_peer_id) :
            Dist(g, my_peer_id, P) = 1 + Dist(g, N, P)}]

\* C26: the next-hop computation is exact.  The forwarding table computed
\* from an Overlay Graph has as keys the peers other than the local one that
\* are reachable from it, and lists for each exactly the neighbours N of the
\* local peer with dist(local, P) = 1 + dist(N, P); the local peer is neither
\* a key nor a next hop.  Stated of the RoutingTableUpdate the actor may
\* handle next, in every state where the dirty flag is set.
NextHopExactness ==
    needs_routing_table_recalculation =>
        \A prune \in Prune, d \in Durations :
            LET s == handle_RoutingTableUpdate(Self, prune, d, TRUE)
            IN  /\ s.ret.peer_forwarding = FirstHops(raw_graph)
                /\ my_peer_id \notin DOMAIN s.ret.peer_forwarding
                /\ \A P \in DOMAIN s.ret.peer_forwarding :
                       my_peer_id \notin s.ret.peer_forwarding[P]

\* A RoutingTableUpdate has answered with a peer two hops away that two
\* neighbours of the local peer lead to.
NextHopExactnessWitness ==
    /\ response.type = "RoutingTableUpdateResponse"
    /\ \E P \in DOMAIN response.peer_forwarding :
           /\ Dist(raw_graph, my_peer_id, P) = 2
           /\ Cardinality(response.peer_forwarding[P]) = 2

\* C27: Disable never spills.  A RoutingTableUpdate with prune = Disable
\* leaves the three columns of the store as they are, allocates no component
\* nonce, removes no edge from the Edge Store or the Overlay Graph and no
\* peer from the Reachability Tracker, and reports no evicted edge, whatever
\* the ages of the peers tracked and whether or not the store works.  Stated
\* of the RoutingTableUpdate the actor may handle next, in every state.
DisableNeverSpills ==
    \A d \in Durations, ok \in BOOLEAN :
        LET s == handle_RoutingTableUpdate(Self, "Disable", d, ok)
        IN  /\ s.ColLastComponentNonce = ColLastComponentNonce
            /\ s.ColComponentEdges = ColComponentEdges
            /\ s.ColPeerComponent = ColPeerComponent
            /\ s.allocated = allocated
            /\ s.next_available_component_nonce = next_available_component_nonce
            /\ s.edges_info = edges_info
            /\ s.raw_graph = raw_graph
            /\ DOMAIN peer_last_time_reachable
                   \subseteq DOMAIN s.peer_last_time_reachable
            /\ s.ret.edges_to_remove = {}

\* The dirty flag is set and a tracked peer with an edge in the Edge Store
\* is as old as a prune pass asks: PruneOncePerHour would spill it now.
DisableNeverSpillsWitness ==
    /\ needs_routing_table_recalculation
    /\ oldest_age(AtPrune(SAVE_PEERS_MAX_TIME, TRUE)) >= SAVE_PEERS_MAX_TIME
    /\ edges_touching(AtPrune(SAVE_PEERS_MAX_TIME, TRUE),
                      peers_to_remove(AtPrune(SAVE_PEERS_MAX_TIME, TRUE),
                                      SAVE_PEERS_MAX_TIME)) # {}

\* C28: the local peer is never stored in the Reachability Tracker, and so
\* is never a key of ColPeerComponent, after any sequence of requests.
LocalPeerNeverTracked ==
    /\ my_peer_id \notin DOMAIN peer_last_time_reachable
    /\ my_peer_id \notin DOMAIN ColPeerComponent

\* An AddVerifiedEdges has answered after the one component ever spilled
\* was restored: its edge, which touches the local peer, is back in the Edge
\* Store and its other peer is tracked again.
LocalPeerNeverTrackedWitness ==
    /\ response.type = "AddVerifiedEdgesResponse"
    /\ Len(allocated) = 1
    /\ ColComponentEdges = EmptyMap
    /\ ColPeerComponent = EmptyMap
    /\ \E key \in DOMAIN edges_info :
           /\ key[1] = my_peer_id
           /\ key[2] \in DOMAIN peer_last_time_reachable

\* A peer the local peer has no path to in the Overlay Graph.
StaysUnreachable(p) == Dist(raw_graph, my_peer_id, p) = Unreachable

\* A peer moved to disk: not tracked, with a row of ColPeerComponent, and
\* with no edge in the Edge Store or the Overlay Graph.
MovedToDisk(p) ==
    /\ p \notin DOMAIN peer_last_time_reachable
    /\ p \in DOMAIN ColPeerComponent
    /\ \A key \in DOMAIN edges_info \cup raw_graph : key[1] # p /\ key[2] # p

\* C29: unreachable peers are eventually moved to disk.  With
\* RoutingTableUpdate(PruneOncePerHour, SAVE_PEERS_MAX_TIME) requested
\* periodically forever, a tracked peer that stays unreachable from the
\* local peer is eventually removed from the Reachability Tracker and
\* recorded in ColPeerComponent, its edges gone from memory, also when no
\* further edges arrive.
EventuallyMovedToDisk ==
    \A p \in Peers \ {my_peer_id} :
        (p \in DOMAIN peer_last_time_reachable /\ [] StaysUnreachable(p))
            ~> MovedToDisk(p)

\* The actor while every read of the store fails.
WithReads(fail) == [Self EXCEPT !.reads_fail = fail]

\* C30: no error reaches the caller.  Whether or not the reads and the
\* commits of the store fail while a request is handled, AddVerifiedEdges
\* answers with a list of edges of its batch, now in the Edge Store,
\* RoutingTableUpdate with a set of evicted edges and a forwarding table,
\* the dirty flag cleared, and RequestRoutingTable with the edges of the
\* Edge Store.  Stated of the request the actor may handle next, in every
\* state.
NoErrorReachesCaller ==
    \A fail \in BOOLEAN, ok \in BOOLEAN :
        /\ \A edges \in Batches :
               LET s == add_verified_edges_to_routing_table(
                            WithReads(fail), edges, ok)
               IN  /\ s.ret \in Seq(Edges)
                   /\ \A i \in 1..Len(s.ret) :
                          /\ \E j \in 1..Len(edges) : s.ret[i] = edges[j]
                          /\ get_pair(s.ret[i]) \in DOMAIN s.edges_info
        /\ \A prune \in Prune, d \in Durations :
               LET s == handle_RoutingTableUpdate(WithReads(fail), prune, d, ok)
               IN  /\ DOMAIN s.ret = {"edges_to_remove", "peer_forwarding"}
                   /\ s.ret.edges_to_remove \subseteq Edge
                   /\ s.ret.peer_forwarding = s.peer_forwarding
                   /\ ~s.needs_routing_table_recalculation
        /\ handle_RequestRoutingTable(WithReads(fail)).ret
               = {edges_info[key] : key \in DOMAIN edges_info}

\* A commit has failed before, and a peer lies in the store that the next
\* batch can ask back: the next request reads the store and commits to it.
NoErrorReachesCallerWitness ==
    /\ spill_failed
    /\ \E p \in DOMAIN ColPeerComponent :
           /\ p \notin DOMAIN peer_last_time_reachable
           /\ ColPeerComponent[p] \in DOMAIN ColComponentEdges
           /\ ColComponentEdges[ColPeerComponent[p]] # {}

\* C31: the restore inconsistency is unreachable.  With a store that never
\* fails, a restore of a component never meets an untracked endpoint, other
\* than the local peer, whose ColPeerComponent row names another component
\* or is absent: neither warning of the restore is ever logged.  Stated of
\* the request the actor may handle next, in every state.
RestoreInconsistencyUnreachable ==
    \A edges \in Batches :
        ~add_verified_edges_to_routing_table(Self, edges, TRUE).warned

\* The peers fetch_edges_for_peer_from_disk restores a component for: not
\* tracked, with a row that names a component present in the store.
Spilled ==
    {p \in Peers \ {my_peer_id} :
        /\ p \notin DOMAIN peer_last_time_reachable
        /\ p \in DOMAIN ColPeerComponent
        /\ ColPeerComponent[p] \in DOMAIN ColComponentEdges}

\* The endpoints of the edges of component C a restore would look at: not
\* the local peer and not tracked.
UntrackedEndpoints(C) ==
    {q \in Peers \ {my_peer_id} :
        /\ q \notin DOMAIN peer_last_time_reachable
        /\ \E edge \in ColComponentEdges[C] : contains_peer(edge, q)}

\* Those whose row names another component or is absent.
Inconsistent(C) ==
    {q \in UntrackedEndpoints(C) :
        q \notin DOMAIN ColPeerComponent \/ ColPeerComponent[q] # C}

\* C32: an inconsistent peer during a restore.  When an endpoint q of an
\* edge of component C is untracked and its row names another component C2
\* or is absent, the restore of C does not track q and leaves its row and
\* ComponentEdges[C2] as they are; every edge of C, the edges of q among
\* them, goes through the nonce check, the other untracked endpoints are
\* tracked and lose their rows, and ComponentEdges[C] is deleted.  Stated of
\* the restore the actor may do next, in every state.
RestoreSkipsInconsistentPeer ==
    \A p \in Spilled :
        LET C == ColPeerComponent[p]
            s == fetch_edges_for_peer_from_disk(Self, p, TRUE)
        IN  Inconsistent(C) # {} =>
                /\ \A q \in Inconsistent(C) :
                       /\ q \notin DOMAIN s.peer_last_time_reachable
                       /\ q \in DOMAIN s.ColPeerComponent
                              <=> q \in DOMAIN ColPeerComponent
                       /\ q \in DOMAIN ColPeerComponent =>
                              LET C2 == ColPeerComponent[q]
                              IN  /\ s.ColPeerComponent[q] = C2
                                  /\ C2 \in DOMAIN s.ColComponentEdges
                                         <=> C2 \in DOMAIN ColComponentEdges
                                  /\ C2 \in DOMAIN ColComponentEdges =>
                                         s.ColComponentEdges[C2]
                                             = ColComponentEdges[C2]
                /\ \A q \in UntrackedEndpoints(C) \ Inconsistent(C) :
                       /\ q \in DOMAIN s.peer_last_time_reachable
                       /\ q \notin DOMAIN s.ColPeerComponent
                /\ C \notin DOMAIN s.ColComponentEdges
                /\ \A edge \in ColComponentEdges[C] :
                       LET key == get_pair(edge)
                       IN  /\ key \in DOMAIN s.edges_info
                           /\ s.edges_info[key] =
                                  IF current_nonce(key) < edge.nonce
                                  THEN edge ELSE edges_info[key]

\* A component lies in the store with an edge to a peer whose row names
\* another component, and an edge that is newer than the Edge Store's.
RestoreSkipsInconsistentPeerWitness ==
    \E p \in Spilled :
        /\ \E q \in Inconsistent(ColPeerComponent[p]) : q \in DOMAIN ColPeerComponent
        /\ \E edge \in ColComponentEdges[ColPeerComponent[p]] :
               current_nonce(get_pair(edge)) < edge.nonce

\* C33: prune removes exactly the victims' edges from memory.  After a
\* prune pass no edge of the Edge Store or the Overlay Graph has a victim of
\* the pass as an endpoint, every edge between two peers that are not
\* victims is still there, with its nonce and kind, and the edges removed
\* from memory are exactly the edges written to ColComponentEdges[C].
PruneRemovesVictimsEdges ==
    [][\A prune \in Prune, d \in Durations, ok \in BOOLEAN :
          (/\ RoutingTableUpdate(prune, d, ok)
           /\ Len(allocated') = Len(allocated) + 1) =>
              LET victims == peers_to_remove(AtPrune(d, ok), d)
                  C == next_available_component_nonce
              IN  /\ \A key \in DOMAIN edges_info' \cup raw_graph' :
                         key[1] \notin victims /\ key[2] \notin victims
                  /\ \A key \in DOMAIN edges_info :
                         (key[1] \notin victims /\ key[2] \notin victims) =>
                             /\ key \in DOMAIN edges_info'
                             /\ edges_info'[key] = edges_info[key]
                             /\ key \in raw_graph' <=> key \in raw_graph
                  /\ C \in DOMAIN ColComponentEdges'
                  /\ ColComponentEdges'[C] =
                         {edges_info[key] :
                             key \in DOMAIN edges_info \ DOMAIN edges_info'}
      ]_vars

\* The peers a request brought back by a restore: tracked after it, not
\* before, and with a row of ColPeerComponent before it.
Restored(s) ==
    (DOMAIN s.peer_last_time_reachable \ DOMAIN peer_last_time_reachable)
        \cap DOMAIN ColPeerComponent

\* C34: a backdated restore leads to an immediate re-spill.  Every peer a
\* restore brings back is SAVE_PEERS_MAX_TIME old, so that the next
\* RoutingTableUpdate(PruneOncePerHour, u), u <= SAVE_PEERS_MAX_TIME, gets
\* past the hysteresis check and spills again every restored peer its
\* recomputation does not reach, while the restored peers it reaches are
\* refreshed and stay.  Stated of the AddVerifiedEdges the actor may handle
\* next and the RoutingTableUpdate after it, in every state.
BackdatedRestore ==
    \A edges \in Batches :
        LET a == add_verified_edges_to_routing_table(Self, edges, TRUE)
        IN  \A p \in Restored(a) :
                /\ a.peer_last_time_reachable[p] = SAVE_PEERS_MAX_TIME
                /\ \A u \in 0..SAVE_PEERS_MAX_TIME :
                       LET s == handle_RoutingTableUpdate(
                                    a, "PruneOncePerHour", u, TRUE)
                       IN  IF p \in DOMAIN calculate_distance(a.raw_graph)
                           THEN /\ p \in DOMAIN s.peer_last_time_reachable
                                /\ s.peer_last_time_reachable[p] = 0
                           ELSE /\ p \notin DOMAIN s.peer_last_time_reachable
                                /\ p \in DOMAIN s.ColPeerComponent

\* C34, amended: the same for a window u with 0 < u <= SAVE_PEERS_MAX_TIME.
BackdatedRestoreOfPositiveWindow ==
    \A edges \in Batches :
        LET a == add_verified_edges_to_routing_table(Self, edges, TRUE)
        IN  \A p \in Restored(a) :
                /\ a.peer_last_time_reachable[p] = SAVE_PEERS_MAX_TIME
                /\ \A u \in 1..SAVE_PEERS_MAX_TIME :
                       LET s == handle_RoutingTableUpdate(
                                    a, "PruneOncePerHour", u, TRUE)
                       IN  IF p \in DOMAIN calculate_distance(a.raw_graph)
                           THEN /\ p \in DOMAIN s.peer_last_time_reachable
                                /\ s.peer_last_time_reachable[p] = 0
                           ELSE /\ p \notin DOMAIN s.peer_last_time_reachable
                                /\ p \in DOMAIN s.ColPeerComponent

\* A request is due that restores two peers, one that the recomputation
\* after it reaches and one that it does not.
BackdatedRestoreWitness ==
    \E edges \in Batches :
        LET a == add_verified_edges_to_routing_table(Self, edges, TRUE)
        IN  /\ \E p \in Restored(a) : p \in DOMAIN calculate_distance(a.raw_graph)
            /\ \E p \in Restored(a) : p \notin DOMAIN calculate_distance(a.raw_graph)

\* The peers the actor knows nothing of: not the local peer, not tracked and
\* without a row of ColPeerComponent.
Unknown == (Peers \ {my_peer_id})
               \ (DOMAIN peer_last_time_reachable \cup DOMAIN ColPeerComponent)

\* C35: touching an unknown peer.  When AddVerifiedEdges processes an edge
\* with an unknown endpoint p, p is put in the Reachability Tracker with the
\* current time, whether or not the edge is then accepted, and the touch
\* writes nothing to the store; the local peer and a peer that is tracked
\* are left as they are, the timestamp not refreshed.  Stated of the touch
\* and of the request of one edge the actor may handle next, in every state.
TouchingUnknownPeer ==
    /\ \A p \in Peers, ok \in BOOLEAN :
           LET s == fetch_edges_for_peer_from_disk(Self, p, ok)
           IN  /\ p \in Unknown =>
                      s = [Self EXCEPT !.peer_last_time_reachable =
                                           MapInsert(@, p, 0)]
               /\ (p = my_peer_id \/ p \in DOMAIN peer_last_time_reachable) =>
                      s = Self
    /\ \A edge \in Edges :
           LET a == add_verified_edges_to_routing_table(Self, <<edge>>, TRUE)
               ends == {edge.peer0, edge.peer1}
           IN  /\ \A p \in ends \cap Unknown :
                      /\ p \in DOMAIN a.peer_last_time_reachable
                      /\ a.peer_last_time_reachable[p] = 0
               /\ \A p \in ends \cap DOMAIN peer_last_time_reachable :
                      a.peer_last_time_reachable[p] = peer_last_time_reachable[p]
               /\ my_peer_id \notin DOMAIN a.peer_last_time_reachable
               /\ ends \subseteq Unknown \cup DOMAIN peer_last_time_reachable
                                          \cup {my_peer_id} =>
                      /\ a.ColLastComponentNonce = ColLastComponentNonce
                      /\ a.ColComponentEdges = ColComponentEdges
                      /\ a.ColPeerComponent = ColPeerComponent

\* A peer is tracked with an old timestamp and a peer that edges may name
\* is unknown: an edge between the two touches both.
TouchingUnknownPeerWitness ==
    /\ \E e \in Edges : {e.peer0, e.peer1} \cap Unknown # {}
    /\ \E p \in DOMAIN peer_last_time_reachable :
           peer_last_time_reachable[p] = MaxAge

\* C36: unconditional removal.  AdvRemoveEdges of an edge removes the Edge
\* Store entry of the edge's key whatever nonce and kind the stored edge has,
\* takes the key out of the Overlay Graph and sets the dirty flag; when the
\* key is absent the request changes nothing; in both cases the Reachability
\* Tracker, the persistent columns and every other entry are left as they
\* are.  Stated of the request of one edge the actor may handle next, in
\* every state.
UnconditionalRemoval ==
    \A edge \in Edges :
        LET key == <<edge.peer0, edge.peer1>>
            s == handle_AdvRemoveEdges(Self, <<edge>>, 1)
        IN  /\ (key \in DOMAIN edges_info) =>
                   /\ DOMAIN s.edges_info = DOMAIN edges_info \ {key}
                   /\ \A k \in DOMAIN s.edges_info :
                          s.edges_info[k] = edges_info[k]
                   /\ Adjacent(s.raw_graph, key[1])
                          = Adjacent(raw_graph, key[1]) \ {key[2]}
                   /\ Adjacent(s.raw_graph, key[2])
                          = Adjacent(raw_graph, key[2]) \ {key[1]}
                   /\ \A p \in Peers \ {key[1], key[2]} :
                          Adjacent(s.raw_graph, p) = Adjacent(raw_graph, p)
                   /\ s.needs_routing_table_recalculation
            /\ (key \notin DOMAIN edges_info) => s = Self
            /\ s.peer_last_time_reachable = peer_last_time_reachable
            /\ s.peer_forwarding = peer_forwarding
            /\ s.next_available_component_nonce
                   = next_available_component_nonce
            /\ s.ColLastComponentNonce = ColLastComponentNonce
            /\ s.ColComponentEdges = ColComponentEdges
            /\ s.ColPeerComponent = ColPeerComponent

\* AdvRemoveEdges has just removed an edge, and the Edge Store holds an
\* Added edge with the highest nonce while the dirty flag is down, so that
\* an older edge of the same key removes a newer one and raises the flag.
UnconditionalRemovalWitness ==
    /\ response = [type |-> "Empty"]
    /\ ~needs_routing_table_recalculation
    /\ \E key \in DOMAIN edges_info :
           /\ edges_info[key].nonce = MaxNonce
           /\ edges_info[key].kind = "Added"

\* C37: every in-memory edge is prunable.  After every request, with a store
\* that never fails, each endpoint of each edge of the Edge Store is the
\* local peer or a key of the Reachability Tracker.
EveryEdgePrunable ==
    \A key \in DOMAIN edges_info :
        \A p \in {key[1], key[2]} :
            p = my_peer_id \/ p \in DOMAIN peer_last_time_reachable

\* C38: pruning with a positive window never invalidates the snapshot just
\* published.  When a RoutingTableUpdate recalculates and prunes with
\* unreachable_for > 0, no peer of the forwarding table just computed is a
\* victim, no edge of the Overlay Graph with both endpoints joined to the
\* local peer is evicted, and the published forwarding table is the
\* breadth-first search result on the Overlay Graph left by the pass.  Stated
\* of the RoutingTableUpdate the actor may handle next, in every state where
\* the dirty flag is set.
PositiveWindowKeepsSnapshot ==
    needs_routing_table_recalculation =>
        \A prune \in Prune, d \in 1..MaxAge :
            LET s == handle_RoutingTableUpdate(Self, prune, d, TRUE)
                victims == DOMAIN AtPrune(d, TRUE).peer_last_time_reachable
                               \ DOMAIN s.peer_last_time_reachable
                joined == Within(raw_graph, my_peer_id, Cardinality(Peers) - 1)
            IN  /\ victims \cap DOMAIN s.ret.peer_forwarding = {}
                /\ DOMAIN s.ret.peer_forwarding
                       \subseteq DOMAIN s.peer_last_time_reachable
                /\ \A key \in raw_graph :
                       {key[1], key[2]} \subseteq joined =>
                           /\ key \in s.raw_graph
                           /\ key \in DOMAIN s.edges_info
                           /\ s.edges_info[key] = edges_info[key]
                /\ s.ret.peer_forwarding = FirstHops(s.raw_graph)
                /\ s.peer_forwarding = s.ret.peer_forwarding

\* The dirty flag is set, a peer is joined to the local peer, and a tracked
\* peer that no path joins to it is old and has an edge: a pass with a
\* positive window evicts that edge and publishes a table with the first.
PositiveWindowKeepsSnapshotWitness ==
    /\ needs_routing_table_recalculation
    /\ Adjacent(raw_graph, my_peer_id) # {}
    /\ \E p \in peers_to_remove(AtPrune(MaxAge, TRUE), MaxAge) :
           /\ oldest_age(AtPrune(MaxAge, TRUE)) >= SAVE_PEERS_MAX_TIME
           /\ \E key \in DOMAIN edges_info : p \in {key[1], key[2]}

\* The timers check_triggers runs in the current state, each with the
\* attempt it is due at.
next_attempt(timer) ==
    CASE timer = "doomslug" -> doomslug_timer_next_attempt
      [] timer = "block_production" -> block_production_next_attempt
      [] timer = "chunk_request_retry" -> chunk_request_retry_next_attempt

\* C39: run_timer fires at most once per period.  In every state run_timer
\* invokes the callback once, and returns now + duration, exactly when
\* now >= next_attempt; otherwise it does not invoke it and returns
\* next_attempt.  Hence two consecutive firings of one timer are at least
\* its period apart, and the doomslug timer has never fired while
\* sync_started is false.
TimerFiresOncePerPeriod ==
    /\ \A timer \in Timers :
           LET r == run_timer(period(timer), next_attempt(timer), utc_now)
           IN  /\ utc_now >= next_attempt(timer) =>
                      r.called = 1 /\ r.ret = utc_now + period(timer)
               /\ utc_now < next_attempt(timer) =>
                      r.called = 0 /\ r.ret = next_attempt(timer)
    /\ \A timer \in Timers :
           /\ Len(firings[timer]) = 2 =>
                  firings[timer][2] - firings[timer][1] >= period(timer)
           /\ firings[timer] # <<>> =>
                  next_attempt(timer)
                      = firings[timer][Len(firings[timer])] + period(timer)
    /\ ~sync_started => firings["doomslug"] = <<>>

\* The doomslug timer has fired twice, and is not due now; the wall clock
\* has been set back since.
TimerFiresOncePerPeriodWitness ==
    /\ Len(firings["doomslug"]) = 2
    /\ utc_now < doomslug_timer_next_attempt
    /\ utc_now < firings["doomslug"][2]
    /\ firings["chunk_request_retry"] # <<>>

\* C40: state-part download bookkeeping.  For a download in status
\* StateDownloadParts and every StateResponse the actor may handle next: a
\* part_id that is not below the number of parts changes no entry; a part
\* is handed to set_state_part only while its done flag is false; a done
\* flag is set only for the part of the response and only after a
\* successful store; an entry whose done flag is true is left as it is, done
\* and error alike; the status and the number of entries do not change.
StatePartBookkeeping ==
    shard_sync_download.status = "StateDownloadParts" =>
        \A state_response \in StateResponses, ok \in BOOLEAN :
            LET before == shard_sync_download.downloads
                r == handle_StateResponse(shard_sync_download,
                                          state_response, ok)
                after == r.download.downloads
                part_id == state_response.part_id
            IN  /\ r.download.status = "StateDownloadParts"
                /\ Len(after) = Len(before)
                /\ (state_response.part /\ part_id >= Len(before)) =>
                       /\ r.download = shard_sync_download
                       /\ r.set_state_part = <<>>
                /\ \A j \in 1..Len(r.set_state_part) :
                       /\ r.set_state_part[j] = part_id
                       /\ ~before[r.set_state_part[j] + 1].done
                /\ Len(r.set_state_part) <= 1
                /\ \A k \in 1..Len(before) :
                       /\ (after[k].done /\ ~before[k].done) =>
                              /\ ok
                              /\ r.set_state_part = <<k - 1>>
                       /\ before[k].done => after[k] = before[k]

\* A download of two parts: one part is done after a response that failed
\* had set its error flag, the other one is not done.
StatePartBookkeepingWitness ==
    /\ shard_sync_download.status = "StateDownloadParts"
    /\ Len(shard_sync_download.downloads) = MaxParts
    /\ \E k \in 1..MaxParts :
           /\ shard_sync_download.downloads[k].done
           /\ shard_sync_download.downloads[k].error
    /\ \E k \in 1..MaxParts : ~shard_sync_download.downloads[k].done

====
